---- MODULE Spec2Model ----
(***************************************************************************)
(* Finance tracker backend: the DataStore (internal/storage/datastore.go)  *)
(* and the HTTP handlers that drive it (internal/handlers/handlers.go),    *)
(* and the frontend's NAV refresh and its dashboard calculations.          *)
(*                                                                         *)
(* Strings that only matter through emptiness are kept as strings, ids    *)
(* and RFC3339 timestamps are naturals (0 is the empty string), amounts    *)
(* are integers counting hundredths.                                       *)
(***************************************************************************)
EXTENDS Integers, Sequences, FiniteSets, TLC

VARIABLES
    mu,           \* DataStore.mu: [writer |-> holder of Lock or 0, readers |-> holders of RLock]
    mem,          \* DataStore.investments / incomes / expenses: Go slices [arr, len]
    settings,     \* DataStore.settings
    file,         \* investments.json, incomes.json, expenses.json, settings.json:
                  \* [data |-> the value last marshalled into it, intact |-> not cut short]
    req,          \* one in-flight HTTP request per serving goroutine
    now,          \* time.Now(), in seconds
    nextId,       \* number of uuid.New() calls so far + 1
    started,      \* number of requests accepted so far
    writeFailed,  \* history: some os.WriteFile has failed
    market,       \* the NAV service the frontend asks: prices by scheme code
    clock,        \* the browser's Date: [zone, month, edge], <<>> with no browser
    screen        \* what the frontend rendered last, by view

vars == <<mu, mem, settings, file, req, now, nextId, started, writeFailed,
          market, clock, screen>>

----------------------------------------------------------------------------
(* Bounds *)

\* requests accepted in one behaviour of Spec
MaxOps == 3
\* concurrent CreateInvestment requests in SpecAdds
MaxAdders == 3

----------------------------------------------------------------------------
(* net/http status codes used by the handlers *)

StatusOK == 200
StatusCreated == 201
StatusBadRequest == 400
StatusNotFound == 404
StatusInternalServerError == 500

----------------------------------------------------------------------------
(* models: Investment, Income, Expense, Settings, ExportData *)

Types == {"investments", "incomes", "expenses"}
Collections == Types \cup {"settings"}

Investment(id, name, typ, invested, current, date, scheme, units, created, updated) ==
    [ID |-> id, Name |-> name, Type |-> typ, Invested |-> invested,
     Current |-> current, Date |-> date, SchemeCode |-> scheme, Units |-> units,
     CreatedAt |-> created, UpdatedAt |-> updated]

Income(id, source, amount, category, date, addedBy, method, created, updated) ==
    [ID |-> id, Source |-> source, Amount |-> amount, Category |-> category,
     Date |-> date, AddedBy |-> addedBy, PaymentMethod |-> method,
     CreatedAt |-> created, UpdatedAt |-> updated]

Expense(id, desc, amount, category, date, addedBy, method, created, updated) ==
    [ID |-> id, Desc |-> desc, Amount |-> amount, Category |-> category,
     Date |-> date, AddedBy |-> addedBy, PaymentMethod |-> method,
     CreatedAt |-> created, UpdatedAt |-> updated]

Settings(categories, investmentTypes, incomeCategories, paymentMethods, members) ==
    [Categories |-> categories, InvestmentTypes |-> investmentTypes,
     IncomeCategories |-> incomeCategories, PaymentMethods |-> paymentMethods,
     Members |-> members]

\* the zero value of the element type of collection t
ZeroRecord(t) ==
    CASE t = "investments" -> Investment(0, "", "", 0, 0, "", "", 0, 0, 0)
      [] t = "incomes" -> Income(0, "", 0, "", "", "", "", 0, 0)
      [] t = "expenses" -> Expense(0, "", 0, "", "", "", "", 0, 0)

ExportData(investments, incomes, expenses, stt) ==
    [Investments |-> investments, Incomes |-> incomes, Expenses |-> expenses,
     Settings |-> stt]

\* the settings NewDataStore starts from
DefaultSettings ==
    Settings(<<"Food", "Transport", "Utilities", "Shopping", "Entertainment",
               "Health", "EMI", "Household", "Other">>,
             <<"Mutual Fund", "Stocks", "FD", "Gold", "PPF", "NPS", "Other">>,
             <<"Salary", "Business", "Rental", "Freelance", "Interest",
               "Dividend", "Other">>,
             <<"Online", "Cash", "Card", "UPI", "Bank Transfer">>,
             <<"Ravi", "Family">>)

----------------------------------------------------------------------------
(* models: Validate.  The result is the error text, Nil for a nil error.  *)

Nil == "nil"

InvestmentValidate_AcceptsZeroInvested(inv) ==
    IF inv.Name = "" THEN "investment name is required"
    ELSE IF inv.Type = "" THEN "investment type is required"
    ELSE IF inv.Invested < 0 THEN "invested amount must be greater than 0"
    ELSE IF inv.Current < 0 THEN "current value cannot be negative"
    ELSE IF inv.Date = "" THEN "investment date is required"
    ELSE Nil

InvestmentValidate(inv) ==
    IF inv.Name = "" THEN "investment name is required"
    ELSE IF inv.Type = "" THEN "investment type is required"
    ELSE IF inv.Invested <= 0 THEN "invested amount must be greater than 0"
    ELSE IF inv.Current < 0 THEN "current value cannot be negative"
    ELSE IF inv.Date = "" THEN "investment date is required"
    ELSE Nil

ExpenseValidate(exp) ==
    IF exp.Desc = "" THEN "expense description is required"
    ELSE IF exp.Amount <= 0 THEN "expense amount must be greater than 0"
    ELSE IF exp.Category = "" THEN "expense category is required"
    ELSE IF exp.Date = "" THEN "expense date is required"
    ELSE IF exp.AddedBy = "" THEN "added by (member name) is required"
    ELSE Nil

IncomeValidate(inc) ==
    IF inc.Source = "" THEN "income source is required"
    ELSE IF inc.Amount <= 0 THEN "income amount must be greater than 0"
    ELSE IF inc.Category = "" THEN "income category is required"
    ELSE IF inc.Date = "" THEN "income date is required"
    ELSE IF inc.AddedBy = "" THEN "added by (member name) is required"
    ELSE Nil

Validate(t, r) ==
    CASE t = "investments" -> InvestmentValidate(r)
      [] t = "incomes" -> IncomeValidate(r)
      [] t = "expenses" -> ExpenseValidate(r)

----------------------------------------------------------------------------
(* Go slices.  A slice is [arr, len]: arr is the backing array (its length *)
(* is the capacity), the slice's elements are arr[1..len].                 *)

NilSlice == [arr |-> <<>>, len |-> 0]

Cap(s) == Len(s.arr)

\* the elements of slice s
Coll(s) == SubSeq(s.arr, 1, s.len)

\* capacity after growing a full slice by one element (runtime growslice)
GrowCap(c) == IF c = 0 THEN 1 ELSE 2 * c

\* capacity of a slice json.Unmarshal filled with n elements, one Grow(1) at a time
RECURSIVE DecodeCap(_)
DecodeCap(n) == IF n = 0 THEN 0 ELSE
                  LET c == DecodeCap(n - 1) IN IF n > c THEN GrowCap(c) ELSE c

\* seq as a fresh slice of capacity c, the spare slots holding zero values
MakeSlice(t, seq, c) ==
    [arr |-> [k \in 1..c |-> IF k <= Len(seq) THEN seq[k] ELSE ZeroRecord(t)],
     len |-> Len(seq)]

\* the slice json.Unmarshal builds for a JSON array (nil for an absent or empty one)
DecodedSlice(t, seq) ==
    IF seq = <<>> THEN NilSlice ELSE MakeSlice(t, seq, DecodeCap(Len(seq)))

\* append(s, x) reallocates exactly when the slice is full
AppendReallocates(s) == s.len = Cap(s)

\* append(s, x)
SliceAppend(t, s, x) ==
    IF AppendReallocates(s)
    THEN MakeSlice(t, Append(Coll(s), x), GrowCap(Cap(s)))
    ELSE [arr |-> [s.arr EXCEPT ![s.len + 1] = x], len |-> s.len + 1]

\* a delete that cuts the last element off whatever i is
SliceDelete_Truncates(s, i) == [arr |-> s.arr, len |-> s.len - 1]

\* append(s[:i], s[i+1:]...) with i counted from 1: shifts the tail down in
\* place, the slot after the new end keeps its old element
SliceDelete(s, i) ==
    [arr |-> [k \in 1..Cap(s) |->
                 IF k >= i /\ k < s.len THEN s.arr[k + 1] ELSE s.arr[k]],
     len |-> s.len - 1]

\* index of the first element with the given ID, 0 when there is none
\* (for i, x := range s { if x.ID == id ... })
IndexOfID(seq, id) ==
    IF \E i \in 1..Len(seq) : seq[i].ID = id
    THEN CHOOSE i \in 1..Len(seq) :
             seq[i].ID = id /\ \A j \in 1..(i - 1) : seq[j].ID # id
    ELSE 0

----------------------------------------------------------------------------
(* storage.DataStore: the in-memory operations, each run under ds.mu.Lock *)

\* AddInvestment / AddIncome / AddExpense, after validation
StoreAdd_Overwrite(t, s, rec) ==
    IF s.len = 0 THEN SliceAppend(t, s, rec)
    ELSE [arr |-> [s.arr EXCEPT ![s.len] = rec], len |-> s.len]

StoreAdd(t, s, rec) == SliceAppend(t, s, rec)

\* UpdateInvestment / UpdateIncome / UpdateExpense: [slice, err]
StoreUpdate(s, id, updated) ==
    LET i == IndexOfID(Coll(s), id) IN
    IF i = 0 THEN [slice |-> s, err |-> "not found"]
    ELSE [slice |-> [s EXCEPT !.arr[i] = updated], err |-> Nil]

\* DeleteInvestment / DeleteIncome / DeleteExpense: [slice, err]
StoreDelete(s, id) ==
    LET i == IndexOfID(Coll(s), id) IN
    IF i = 0 THEN [slice |-> s, err |-> "not found"]
    ELSE [slice |-> SliceDelete(s, i), err |-> Nil]

\* what a save marshals: the collection as it is in memory
MemContent(c) == IF c = "settings" THEN settings ELSE Coll(mem[c])

----------------------------------------------------------------------------
(* sync.RWMutex *)

CanLock == mu.writer = 0 /\ mu.readers = {}
CanRLock == mu.writer = 0

----------------------------------------------------------------------------
(* Requests *)

NoSnap == [shared |-> FALSE, arr |-> <<>>, len |-> 0]

IdleReq ==
    [op |-> "none", pc |-> "idle", typ |-> "investments", id |-> 0,
     rec |-> ZeroRecord("investments"), snap |-> NoSnap,
     batch |-> <<>>, count |-> 0, total |-> 0,
     bundle |-> ExportData(<<>>, <<>>, <<>>, Settings(<<>>, <<>>, <<>>, <<>>, <<>>)),
     saveq |-> <<>>, status |-> 0, body |-> "", memDone |-> FALSE,
     touched |-> FALSE]

\* the handler goroutines of Spec, and those of SpecAdds
Procs == {1, 2}
Adders == 1..MaxAdders


\* the response is written and the handler returns; rec is kept when the
\* answer carries the record or rejects it as invalid
Respond(r, status, body) ==
    [r EXCEPT !.pc = "done", !.status = status, !.body = body,
              !.rec = IF body \in {"record", "Validation error"} THEN @
                      ELSE IdleReq.rec,
              !.snap = NoSnap, !.batch = <<>>, !.saveq = <<>>,
              !.bundle = IdleReq.bundle]

\* what a request sees through a slice it was handed: a slice shares its
\* backing array with the store until the store moves to another array
SnapView(t, snap) ==
    IF snap.shared THEN SubSeq(mem[t].arr, 1, snap.len)
    ELSE SubSeq(snap.arr, 1, snap.len)

\* the slice GetInvestments / GetIncomes / GetExpenses returns: ds.<t> itself
TakeSnap(s) == IF s.len = 0 THEN NoSnap ELSE [shared |-> TRUE, arr |-> <<>>, len |-> s.len]

\* the store leaves the backing array of collection t (a reallocating append,
\* an import): the slices handed out before keep the old array
FreezeSnaps(rq, t) ==
    [q \in DOMAIN rq |->
        IF rq[q].snap.shared /\ rq[q].typ = t
        THEN [rq[q] EXCEPT !.snap = [shared |-> FALSE, arr |-> mem[t].arr,
                                     len |-> rq[q].snap.len]]
        ELSE rq[q]]

----------------------------------------------------------------------------
(* handlers: CreateInvestment / CreateIncome / CreateExpense *)

\* the record the handler builds from the decoded body
NewRecord(payload, id, t0) ==
    LET a == [payload EXCEPT !.ID = id, !.CreatedAt = t0]
    IN [a EXCEPT !.UpdatedAt = a.CreatedAt]

\* as cmd/server/main.go's createInvestment: append first, under the lock
CreateBegin_AppendsBeforeValidating(p, t, payload) ==
    LET inv == NewRecord(payload, nextId, now)
        r0 == [IdleReq EXCEPT !.op = "create", !.typ = t, !.rec = inv,
                              !.id = inv.ID, !.memDone = TRUE, !.touched = TRUE]
    IN /\ req[p].pc \in {"idle", "done"}
       /\ mu.writer = 0 /\ mu.readers = {}
       /\ nextId' = nextId + 1
       /\ now' = now + 1
       /\ started' = started + 1
       /\ mem' = [mem EXCEPT ![t] = SliceAppend(t, @, inv)]
       /\ req' = [req EXCEPT ![p] =
                    IF Validate(t, inv) # Nil
                    THEN Respond(r0, StatusBadRequest, "Validation error")
                    ELSE [r0 EXCEPT !.pc = "save_rlock", !.saveq = <<t>>]]
       /\ UNCHANGED <<mu, settings, file, writeFailed, market, clock, screen>>

\* decode, stamp id and timestamps, validate (handler, then store.Add* again)
CreateBegin(p, t, payload) ==
    LET inv == NewRecord(payload, nextId, now)
        r0 == [IdleReq EXCEPT !.op = "create", !.typ = t, !.rec = inv,
                              !.id = inv.ID]
    IN /\ req[p].pc \in {"idle", "done"}
       /\ nextId' = nextId + 1
       /\ now' = now + 1
       /\ started' = started + 1
       /\ req' = [req EXCEPT ![p] =
                    IF Validate(t, inv) # Nil
                    THEN Respond(r0, StatusBadRequest, "Validation error")
                    ELSE [r0 EXCEPT !.pc = "add_lock"]]
       /\ UNCHANGED <<mu, mem, settings, file, writeFailed, market, clock, screen>>

\* store.Add*: ds.mu.Lock()
AddLock(p) ==
    /\ req[p].pc = "add_lock"
    /\ CanLock
    /\ mu' = [mu EXCEPT !.writer = p]
    /\ req' = [req EXCEPT ![p].pc = "add_append"]
    /\ UNCHANGED <<mem, settings, file, now, nextId, started, writeFailed, market, clock, screen>>

\* store.Add*: append, deferred Unlock; the handler goes on to Save*
AddAppend(p) ==
    LET t == req[p].typ
        frozen == IF AppendReallocates(mem[t]) THEN FreezeSnaps(req, t) ELSE req
    IN /\ req[p].pc = "add_append"
       /\ mem' = [mem EXCEPT ![t] = StoreAdd(t, mem[t], req[p].rec)]
       /\ mu' = [mu EXCEPT !.writer = 0]
       /\ req' = [frozen EXCEPT ![p] = [@ EXCEPT !.pc = "save_rlock",
                        !.saveq = <<t>>, !.memDone = TRUE, !.touched = TRUE]]
       /\ UNCHANGED <<settings, file, now, nextId, started, writeFailed, market, clock, screen>>

----------------------------------------------------------------------------
(* storage: SaveInvestments / SaveIncomes / SaveExpenses / SaveSettings, and *)
(* the handler's response after the last save                                *)

\* a file holding the marshalled value v
Written(v) == [data |-> v, intact |-> TRUE]

\* a file after a failed os.WriteFile: what it held before, or that cut
\* short or overwritten in part
Partial(f) == [f EXCEPT !.intact = FALSE]

\* status of the response when a Save* fails
SaveFailStatus_BadRequest == StatusBadRequest

SaveFailStatus == StatusInternalServerError

\* status of the response when the handler ran to its end
SuccessStatus(op) == IF op = "create" THEN StatusCreated ELSE StatusOK

\* body of the response when the handler ran to its end
SuccessBody(op) ==
    CASE op \in {"create", "update"} -> "record"
      [] op = "delete" -> "deleted"
      [] op = "refresh" -> "NAV refresh completed"
      [] op = "import" -> "Data imported successfully"
      [] op = "settings" -> "settings"

\* Save*: ds.mu.RLock()
SaveRLock(p) ==
    /\ req[p].pc = "save_rlock"
    /\ CanRLock
    /\ mu' = [mu EXCEPT !.readers = @ \cup {p}]
    /\ req' = [req EXCEPT ![p].pc = "save_write"]
    /\ UNCHANGED <<mem, settings, file, now, nextId, started, writeFailed, market, clock, screen>>

\* Save*: marshal and os.WriteFile succeed, deferred RUnlock
SaveWriteOK(p) ==
    LET c == Head(req[p].saveq)
        rest == Tail(req[p].saveq)
    IN /\ req[p].pc = "save_write"
       /\ file' = [file EXCEPT ![c] = Written(MemContent(c))]
       /\ mu' = [mu EXCEPT !.readers = @ \ {p}]
       /\ req' = [req EXCEPT ![p] =
                    IF rest = <<>>
                    THEN Respond([@ EXCEPT !.touched = TRUE],
                                 SuccessStatus(@.op), SuccessBody(@.op))
                    ELSE [@ EXCEPT !.pc = "save_rlock", !.saveq = rest,
                                   !.touched = TRUE]]
       /\ UNCHANGED <<mem, settings, now, nextId, started, writeFailed, market, clock, screen>>

\* as cmd/server/main.go's handlers: the error of the save is dropped
SaveWriteFail_IgnoresError(p) ==
    LET c == Head(req[p].saveq)
        rest == Tail(req[p].saveq)
    IN /\ req[p].pc = "save_write"
       /\ file' = [file EXCEPT ![c] = Partial(@)]
       /\ writeFailed' = TRUE
       /\ mu' = [mu EXCEPT !.readers = @ \ {p}]
       /\ req' = [req EXCEPT ![p] =
                    IF rest = <<>>
                    THEN Respond([@ EXCEPT !.touched = TRUE],
                                 SuccessStatus(@.op), SuccessBody(@.op))
                    ELSE [@ EXCEPT !.pc = "save_rlock", !.saveq = rest,
                                   !.touched = TRUE]]
       /\ UNCHANGED <<mem, settings, now, nextId, started, market, clock, screen>>

\* Save*: os.WriteFile fails, deferred RUnlock; the handler answers with the
\* error and returns
SaveWriteFail(p) ==
    LET c == Head(req[p].saveq)
    IN /\ req[p].pc = "save_write"
       /\ file' = [file EXCEPT ![c] = Partial(@)]
       /\ writeFailed' = TRUE
       /\ mu' = [mu EXCEPT !.readers = @ \ {p}]
       /\ req' = [req EXCEPT ![p] =
                    Respond([@ EXCEPT !.touched = TRUE], SaveFailStatus, "Failed to save")]
       /\ UNCHANGED <<mem, settings, now, nextId, started, market, clock, screen>>

----------------------------------------------------------------------------
(* handlers: UpdateInvestment / UpdateIncome / UpdateExpense *)

\* the record the handler stores: id from the URL, createdAt from the original
UpdatedRecord_KeepsPayloadID(payload, id, original, t0) ==
    [payload EXCEPT !.CreatedAt = original.CreatedAt, !.UpdatedAt = t0]

UpdatedRecord(payload, id, original, t0) ==
    [payload EXCEPT !.ID = id, !.CreatedAt = original.CreatedAt, !.UpdatedAt = t0]

\* decode the body, h.store.Get*() (RLock, return ds.<t>, RUnlock)
UpdateGet(p, t, id, payload) ==
    /\ req[p].pc \in {"idle", "done"}
    /\ CanRLock
    /\ started' = started + 1
    /\ req' = [req EXCEPT ![p] = [IdleReq EXCEPT !.op = "update", !.typ = t,
                    !.id = id, !.rec = payload, !.snap = TakeSnap(mem[t]),
                    !.pc = "upd_lookup"]]
    /\ UNCHANGED <<mu, mem, settings, file, now, nextId, writeFailed, market, clock, screen>>

\* look the original up in the returned slice (no lock held), stamp, validate
UpdateLookup(p) ==
    LET t == req[p].typ
        view == SnapView(t, req[p].snap)
        i == IndexOfID(view, req[p].id)
        updates == UpdatedRecord(req[p].rec, req[p].id, view[i], now)
    IN /\ req[p].pc = "upd_lookup"
       /\ IF i = 0
          THEN /\ req' = [req EXCEPT ![p] = Respond(@, StatusNotFound, "not found")]
               /\ now' = now
          ELSE /\ now' = now + 1
               /\ req' = [req EXCEPT ![p] =
                            IF Validate(t, updates) # Nil
                            THEN Respond([@ EXCEPT !.rec = updates],
                                         StatusBadRequest, "Validation error")
                            ELSE [@ EXCEPT !.rec = updates, !.snap = NoSnap,
                                           !.pc = "upd_lock"]]
       /\ UNCHANGED <<mu, mem, settings, file, nextId, started, writeFailed, market, clock, screen>>

\* store.Update*: ds.mu.Lock()
UpdateLock(p) ==
    /\ req[p].pc = "upd_lock"
    /\ CanLock
    /\ mu' = [mu EXCEPT !.writer = p]
    /\ req' = [req EXCEPT ![p].pc = "upd_store"]
    /\ UNCHANGED <<mem, settings, file, now, nextId, started, writeFailed, market, clock, screen>>

\* store.Update*: replace in place or "not found", deferred Unlock
UpdateStore(p) ==
    LET t == req[p].typ
        r == StoreUpdate(mem[t], req[p].id, req[p].rec)
    IN /\ req[p].pc = "upd_store"
       /\ mem' = [mem EXCEPT ![t] = r.slice]
       /\ mu' = [mu EXCEPT !.writer = 0]
       /\ req' = [req EXCEPT ![p] =
                    IF r.err # Nil
                    THEN Respond(@, StatusInternalServerError, "Failed to update")
                    ELSE [@ EXCEPT !.pc = "save_rlock", !.saveq = <<t>>,
                                   !.memDone = TRUE, !.touched = TRUE]]
       /\ UNCHANGED <<settings, file, now, nextId, started, writeFailed, market, clock, screen>>

----------------------------------------------------------------------------
(* handlers: DeleteInvestment / DeleteIncome / DeleteExpense *)

\* store.Delete*: ds.mu.Lock()
DeleteLock(p, t, id) ==
    /\ req[p].pc \in {"idle", "done"}
    /\ CanLock
    /\ started' = started + 1
    /\ mu' = [mu EXCEPT !.writer = p]
    /\ req' = [req EXCEPT ![p] = [IdleReq EXCEPT !.op = "delete", !.typ = t,
                    !.id = id, !.pc = "del_store"]]
    /\ UNCHANGED <<mem, settings, file, now, nextId, writeFailed, market, clock, screen>>

\* a delete that returns "not found" with the mutex still locked
DeleteStore_KeepsLockOnError(p) ==
    LET t == req[p].typ
        r == StoreDelete(mem[t], req[p].id)
    IN /\ req[p].pc = "del_store"
       /\ mem' = [mem EXCEPT ![t] = r.slice]
       /\ mu' = IF r.err # Nil THEN mu ELSE [mu EXCEPT !.writer = 0]
       /\ req' = [req EXCEPT ![p] =
                    IF r.err # Nil
                    THEN Respond(@, StatusNotFound, "not found")
                    ELSE [@ EXCEPT !.pc = "save_rlock", !.saveq = <<t>>,
                                   !.memDone = TRUE, !.touched = TRUE]]
       /\ UNCHANGED <<settings, file, now, nextId, started, writeFailed, market, clock, screen>>

\* store.Delete*: remove in place or "not found", deferred Unlock
DeleteStore(p) ==
    LET t == req[p].typ
        r == StoreDelete(mem[t], req[p].id)
    IN /\ req[p].pc = "del_store"
       /\ mem' = [mem EXCEPT ![t] = r.slice]
       /\ mu' = [mu EXCEPT !.writer = 0]
       /\ req' = [req EXCEPT ![p] =
                    IF r.err # Nil
                    THEN Respond(@, StatusNotFound, "not found")
                    ELSE [@ EXCEPT !.pc = "save_rlock", !.saveq = <<t>>,
                                   !.memDone = TRUE, !.touched = TRUE]]
       /\ UNCHANGED <<settings, file, now, nextId, started, writeFailed, market, clock, screen>>

----------------------------------------------------------------------------
(* handlers: RefreshNAV *)

\* decode the batch
RefreshBegin(p, batch) ==
    /\ req[p].pc \in {"idle", "done"}
    /\ started' = started + 1
    /\ req' = [req EXCEPT ![p] = [IdleReq EXCEPT !.op = "refresh",
                    !.batch = batch, !.total = Len(batch), !.pc = "nav_entry"]]
    /\ UNCHANGED <<mu, mem, settings, file, now, nextId, writeFailed, market, clock, screen>>

\* the next entry of the loop: skipped when its ID is empty or when
\* store.UpdateInvestment rejects it before locking; after the last entry
\* the handler goes on to SaveInvestments
RefreshEntry(p) ==
    LET e == Head(req[p].batch)
        inv == [e EXCEPT !.UpdatedAt = now]
    IN /\ req[p].pc = "nav_entry"
       /\ IF req[p].batch = <<>>
          THEN /\ req' = [req EXCEPT ![p] = [@ EXCEPT !.pc = "save_rlock",
                               !.saveq = <<"investments">>]]
               /\ now' = now
          ELSE IF e.ID = 0
          THEN /\ req' = [req EXCEPT ![p].batch = Tail(@)]
               /\ now' = now
          ELSE /\ now' = now + 1
               /\ req' = [req EXCEPT ![p] =
                            IF InvestmentValidate(inv) # Nil
                            THEN [@ EXCEPT !.batch = Tail(@)]
                            ELSE [@ EXCEPT !.rec = inv, !.id = inv.ID,
                                           !.pc = "nav_lock"]]
       /\ UNCHANGED <<mu, mem, settings, file, nextId, started, writeFailed, market, clock, screen>>

\* store.UpdateInvestment: ds.mu.Lock()
RefreshLock(p) ==
    /\ req[p].pc = "nav_lock"
    /\ CanLock
    /\ mu' = [mu EXCEPT !.writer = p]
    /\ req' = [req EXCEPT ![p].pc = "nav_store"]
    /\ UNCHANGED <<mem, settings, file, now, nextId, started, writeFailed, market, clock, screen>>

\* a loop that returns at the first entry the store rejects
RefreshStore_AbortsOnError(p) ==
    LET r == StoreUpdate(mem["investments"], req[p].id, req[p].rec)
    IN /\ req[p].pc = "nav_store"
       /\ mem' = [mem EXCEPT !["investments"] = r.slice]
       /\ mu' = [mu EXCEPT !.writer = 0]
       /\ req' = [req EXCEPT ![p] =
                    IF r.err # Nil
                    THEN [@ EXCEPT !.batch = <<>>, !.pc = "nav_entry"]
                    ELSE [@ EXCEPT !.batch = Tail(@), !.pc = "nav_entry",
                                   !.count = @ + 1, !.memDone = TRUE,
                                   !.touched = TRUE]]
       /\ UNCHANGED <<settings, file, now, nextId, started, writeFailed, market, clock, screen>>

\* store.UpdateInvestment(inv.ID, inv): replace or "not found" (the loop
\* continues either way), deferred Unlock
RefreshStore(p) ==
    LET r == StoreUpdate(mem["investments"], req[p].id, req[p].rec)
    IN /\ req[p].pc = "nav_store"
       /\ mem' = [mem EXCEPT !["investments"] = r.slice]
       /\ mu' = [mu EXCEPT !.writer = 0]
       /\ req' = [req EXCEPT ![p] =
                    IF r.err # Nil
                    THEN [@ EXCEPT !.batch = Tail(@), !.pc = "nav_entry"]
                    ELSE [@ EXCEPT !.batch = Tail(@), !.pc = "nav_entry",
                                   !.count = @ + 1, !.memDone = TRUE,
                                   !.touched = TRUE]]
       /\ UNCHANGED <<settings, file, now, nextId, started, writeFailed, market, clock, screen>>

----------------------------------------------------------------------------
(* handlers: ImportData *)

\* storage.ImportData, one collection: replaced by the decoded slice when
\* the incoming one is not empty
ImportedSlice_Merges(t, s, incoming) ==
    IF Len(incoming) > 0 THEN DecodedSlice(t, Coll(s) \o incoming) ELSE s

ImportedSlice(t, s, incoming) ==
    IF Len(incoming) > 0 THEN DecodedSlice(t, incoming) ELSE s

\* storage.ImportData, the settings
ImportedSettings_KeepsOwn(s, incoming) == s

ImportedSettings(s, incoming) ==
    IF Len(incoming.Categories) > 0 THEN incoming ELSE s

\* the files Handler.ImportData saves, in its order
ImportSaves == <<"investments", "expenses", "settings">>

\* decode the bundle, store.ImportData: ds.mu.Lock()
ImportLock(p, bundle) ==
    /\ req[p].pc \in {"idle", "done"}
    /\ CanLock
    /\ started' = started + 1
    /\ mu' = [mu EXCEPT !.writer = p]
    /\ req' = [req EXCEPT ![p] = [IdleReq EXCEPT !.op = "import",
                    !.bundle = bundle, !.pc = "imp_store"]]
    /\ UNCHANGED <<mem, settings, file, now, nextId, writeFailed, market, clock, screen>>

\* store.ImportData: the replacements, deferred Unlock
ImportStore(p) ==
    LET b == req[p].bundle
        f1 == IF Len(b.Investments) > 0 THEN FreezeSnaps(req, "investments") ELSE req
        f2 == IF Len(b.Incomes) > 0 THEN FreezeSnaps(f1, "incomes") ELSE f1
        f3 == IF Len(b.Expenses) > 0 THEN FreezeSnaps(f2, "expenses") ELSE f2
    IN /\ req[p].pc = "imp_store"
       /\ mem' = [mem EXCEPT
                    !["investments"] = ImportedSlice("investments", @, b.Investments),
                    !["incomes"] = ImportedSlice("incomes", @, b.Incomes),
                    !["expenses"] = ImportedSlice("expenses", @, b.Expenses)]
       /\ settings' = ImportedSettings(settings, b.Settings)
       /\ mu' = [mu EXCEPT !.writer = 0]
       /\ req' = [f3 EXCEPT ![p] = [@ EXCEPT !.pc = "save_rlock",
                        !.saveq = ImportSaves, !.memDone = TRUE, !.touched = TRUE]]
       /\ UNCHANGED <<file, now, nextId, started, writeFailed, market, clock, screen>>

----------------------------------------------------------------------------
(* Initial states and inputs *)

\* an id no uuid.New() returned, as a client may put in a body or a URL
ClientID == 91
\* a createdAt / updatedAt a client may put in a body
ClientTime == 77

GoodInvestment == Investment(ClientID, "Fund A", "Mutual Fund", 1000, 1000,
                             "2025-01-01", "", 0, ClientTime, ClientTime)
BadInvestment == [GoodInvestment EXCEPT !.Invested = 0]

\* no scheme is quoted
NoMarket == <<>>

\* NewDataStore on an empty data directory, no request accepted yet
InitStore(procs) ==
    /\ mu = [writer |-> 0, readers |-> {}]
    /\ mem = [t \in Types |-> NilSlice]
    /\ settings = DefaultSettings
    /\ file = [c \in Collections |->
                 Written(IF c = "settings" THEN DefaultSettings ELSE <<>>)]
    /\ req = [p \in procs |-> IdleReq]
    /\ now = 1
    /\ nextId = 1
    /\ started = 0
    /\ writeFailed = FALSE
    /\ market = NoMarket
    /\ clock = <<>>
    /\ screen = [view |-> "none"]

----------------------------------------------------------------------------
(* SpecAdds: MaxAdders concurrent CreateInvestment requests on one store *)

InitAdds == InitStore(Adders)

\* each goroutine serves one POST /api/investments
FirstPostInvestment(p) ==
    /\ req[p].pc = "idle"
    /\ \E payload \in {GoodInvestment, BadInvestment} :
           CreateBegin(p, "investments", payload)

NextAdds ==
    \E p \in Adders :
        \/ FirstPostInvestment(p)
        \/ AddLock(p)
        \/ AddAppend(p)
        \/ SaveRLock(p)
        \/ SaveWriteOK(p)
        \/ SaveWriteFail(p)

SpecAdds == InitAdds /\ [][NextAdds]_vars

----------------------------------------------------------------------------
(* Spec: two handler goroutines serving Create, Update, Delete, NAV refresh *)
(* and Import requests on the investments, MaxOps requests in all           *)

Init == InitStore(Procs)

\* ids a client may name: those of the stored records and one of none
KnownIDsOf(t) == {mem[t].arr[i].ID : i \in 1..mem[t].len}
KnownIDs == KnownIDsOf("investments")
MissingID == 90

\* the body of an update: the client's idea of id and createdAt is its own
UpdateBody == [GoodInvestment EXCEPT !.Current = 1100]

\* a NAV refresh entry for investment id, as the client sends it
NavEntry(id) == [GoodInvestment EXCEPT !.ID = id, !.Current = 1200, !.Units = 12]

NavBatches ==
    {<<NavEntry(id)>> : id \in KnownIDs} \cup {<<NavEntry(0), NavEntry(MissingID)>>}

GoodIncome == Income(ClientID, "Salary", 5000, "Salary", "2025-01-31", "Ravi",
                     "Online", ClientTime, ClientTime)
GoodExpense == Expense(ClientID, "Lunch", 250, "Food", "2025-01-15", "Ravi",
                       "UPI", ClientTime, ClientTime)
NoSettings == Settings(<<>>, <<>>, <<>>, <<>>, <<>>)

Bundles ==
    {ExportData(<<GoodInvestment>>, <<GoodIncome>>, <<>>, NoSettings)}

\* the requests a client may send to goroutine p
PostInvestment(p) ==
    /\ started < MaxOps
    /\ \E payload \in {GoodInvestment, BadInvestment} :
           CreateBegin(p, "investments", payload)

PutInvestment(p) ==
    /\ started < MaxOps
    /\ \E id \in KnownIDs \cup {MissingID}, payload \in {UpdateBody, BadInvestment} :
           UpdateGet(p, "investments", id, payload)

DeleteInvestment(p) ==
    /\ started < MaxOps
    /\ \E id \in KnownIDs \cup {MissingID} : DeleteLock(p, "investments", id)

PostRefreshNAV(p) ==
    /\ started < MaxOps
    /\ \E batch \in NavBatches : RefreshBegin(p, batch)

PostImport(p) ==
    /\ started < MaxOps
    /\ \E b \in Bundles : ImportLock(p, b)

Next ==
    \E p \in Procs :
        \/ PostInvestment(p)
        \/ PutInvestment(p)
        \/ DeleteInvestment(p)
        \/ PostRefreshNAV(p)
        \/ PostImport(p)
        \/ AddLock(p)
        \/ AddAppend(p)
        \/ UpdateLookup(p)
        \/ UpdateLock(p)
        \/ UpdateStore(p)
        \/ DeleteStore(p)
        \/ RefreshEntry(p)
        \/ RefreshLock(p)
        \/ RefreshStore(p)
        \/ ImportStore(p)
        \/ SaveRLock(p)
        \/ SaveWriteOK(p)
        \/ SaveWriteFail(p)

Spec == Init /\ [][Next]_vars

----------------------------------------------------------------------------
(* SpecValidate: one goroutine serving MaxChecked Create and Update        *)
(* requests, one after the other, on all three collections, the bodies     *)
(* ranging over every combination of present, absent, positive, zero and   *)
(* negative fields                                                          *)

MaxChecked == 2

Checker == {1}

InvestmentBodies ==
    {Investment(ClientID, n, ty, inv, cur, d, mf[1], mf[2], 0, 0) :
        n \in {"", "Fund A"}, ty \in {"", "Mutual Fund"}, inv \in {-1, 0, 1},
        cur \in {-1, 0, 1}, d \in {"", "2025-01-01"},
        mf \in {<<"", 0>>, <<"119551", 12>>}}

IncomeBodies ==
    {Income(ClientID, src, am, cat, d, by, pm, 0, 0) :
        src \in {"", "Salary"}, am \in {-1, 0, 1}, cat \in {"", "Salary"},
        d \in {"", "2025-01-31"}, by \in {"", "Ravi"}, pm \in {"", "Online"}}

ExpenseBodies ==
    {Expense(ClientID, ds, am, cat, d, by, pm, 0, 0) :
        ds \in {"", "Lunch"}, am \in {-1, 0, 1}, cat \in {"", "Food"},
        d \in {"", "2025-01-15"}, by \in {"", "Ravi"}, pm \in {"", "UPI"}}

Bodies(t) ==
    CASE t = "investments" -> InvestmentBodies
      [] t = "incomes" -> IncomeBodies
      [] t = "expenses" -> ExpenseBodies

InitValidate == InitStore(Checker)

PostRecord(p) ==
    /\ started < MaxChecked
    /\ \E t \in Types : \E payload \in Bodies(t) : CreateBegin(p, t, payload)

PutRecord(p) ==
    /\ started < MaxChecked
    /\ \E t \in Types : \E id \in KnownIDsOf(t) \cup {MissingID} :
          \E payload \in Bodies(t) : UpdateGet(p, t, id, payload)

NextValidate ==
    \E p \in Checker :
        \/ PostRecord(p)
        \/ PutRecord(p)
        \/ AddLock(p)
        \/ AddAppend(p)
        \/ UpdateLookup(p)
        \/ UpdateLock(p)
        \/ UpdateStore(p)
        \/ SaveRLock(p)
        \/ SaveWriteOK(p)

SpecValidate == InitValidate /\ [][NextValidate]_vars

----------------------------------------------------------------------------
(* handlers: UpdateSettings, ExportData; NewDataStore on a data directory *)

\* decode the settings
SettingsBegin(p, s) ==
    /\ req[p].pc \in {"idle", "done"}
    /\ started' = started + 1
    /\ req' = [req EXCEPT ![p] = [IdleReq EXCEPT !.op = "settings",
                    !.typ = "settings", !.pc = "set_lock",
                    !.bundle = [IdleReq.bundle EXCEPT !.Settings = s]]]
    /\ UNCHANGED <<mu, mem, settings, file, now, nextId, writeFailed, market, clock, screen>>

\* store.UpdateSettings: ds.mu.Lock()
SettingsLock(p) ==
    /\ req[p].pc = "set_lock"
    /\ CanLock
    /\ mu' = [mu EXCEPT !.writer = p]
    /\ req' = [req EXCEPT ![p].pc = "set_store"]
    /\ UNCHANGED <<mem, settings, file, now, nextId, started, writeFailed, market, clock, screen>>

\* store.UpdateSettings: ds.settings = settings, deferred Unlock
SettingsStore(p) ==
    /\ req[p].pc = "set_store"
    /\ settings' = req[p].bundle.Settings
    /\ mu' = [mu EXCEPT !.writer = 0]
    /\ req' = [req EXCEPT ![p] = [@ EXCEPT !.pc = "save_rlock",
                    !.saveq = <<"settings">>, !.memDone = TRUE, !.touched = TRUE]]
    /\ UNCHANGED <<mem, file, now, nextId, started, writeFailed, market, clock, screen>>

\* Handler.GetInvestments / GetIncomes / GetExpenses: the request arrives
ListBegin(p, t) ==
    /\ req[p].pc \in {"idle", "done"}
    /\ started' = started + 1
    /\ req' = [req EXCEPT ![p] = [IdleReq EXCEPT !.op = "list", !.typ = t,
                    !.pc = "list_rlock"]]
    /\ UNCHANGED <<mu, mem, settings, file, now, nextId, writeFailed, market, clock, screen>>

\* store.Get*: RLock, return ds.<t>, deferred RUnlock
ListRLock(p) ==
    /\ req[p].pc = "list_rlock"
    /\ CanRLock
    /\ req' = [req EXCEPT ![p] = [@ EXCEPT !.pc = "list_encode",
                    !.snap = TakeSnap(mem[req[p].typ])]]
    /\ UNCHANGED <<mu, mem, settings, file, now, nextId, started, writeFailed, market, clock, screen>>

\* JSONResponse encodes the slice it was handed, no lock held
ListEncode(p) ==
    /\ req[p].pc = "list_encode"
    /\ req' = [req EXCEPT ![p] = Respond(@, StatusOK, "list")]
    /\ UNCHANGED <<mu, mem, settings, file, now, nextId, started, writeFailed, market, clock, screen>>

\* GetExportData under RLock: the bundle the handler answers with
GetExportData ==
    ExportData(Coll(mem["investments"]), Coll(mem["incomes"]),
               Coll(mem["expenses"]), settings)

\* Handler.ExportData; the client keeps the bundle
GetExport(p) ==
    /\ req[p].pc \in {"idle", "done"}
    /\ CanRLock
    /\ started' = started + 1
    /\ now' = now + 1
    /\ req' = [req EXCEPT ![p] = [IdleReq EXCEPT !.op = "export", !.pc = "done",
                    !.status = StatusOK, !.body = "bundle",
                    !.bundle = GetExportData]]
    /\ UNCHANGED <<mu, mem, settings, file, nextId, writeFailed, market, clock, screen>>

\* no file of that name in the data directory
Absent == [data |-> <<>>, intact |-> TRUE, absent |-> TRUE]
Exists(f) == "absent" \notin DOMAIN f

\* load, one collection: what ds.<t> may be after it.  A file left by a
\* failed write holds what it held before or invalid JSON, for which load
\* falls back to an empty slice
LoadedSlices(t, f) ==
    IF ~Exists(f) THEN {NilSlice}
    ELSE IF f.intact THEN {DecodedSlice(t, f.data)}
    ELSE {DecodedSlice(t, f.data), NilSlice}

\* load, the settings: unmarshalled over the defaults of NewDataStore
LoadedSettings(f) ==
    IF ~Exists(f) THEN {DefaultSettings}
    ELSE IF f.intact THEN {f.data}
    ELSE {f.data, DefaultSettings}

\* the server is stopped between two requests and started again on its data
\* directory: NewDataStore, load
Restart(p) ==
    /\ req[p].pc \in {"idle", "done"}
    /\ started' = started + 1
    /\ mu' = [writer |-> 0, readers |-> {}]
    /\ \E li \in LoadedSlices("investments", file["investments"]),
          ln \in LoadedSlices("incomes", file["incomes"]),
          le \in LoadedSlices("expenses", file["expenses"]) :
            mem' = [investments |-> li, incomes |-> ln, expenses |-> le]
    /\ settings' \in LoadedSettings(file["settings"])
    /\ req' = [req EXCEPT ![p] = [IdleReq EXCEPT !.op = "restart", !.pc = "done"]]
    /\ UNCHANGED <<file, now, nextId, writeFailed, market, clock, screen>>

\* a server is started on an empty data directory; the client still holds the
\* bundle it exported
FreshStart(p) ==
    /\ req[p].pc = "done" /\ req[p].op = "export"
    /\ mu' = [writer |-> 0, readers |-> {}]
    /\ mem' = [t \in Types |-> NilSlice]
    /\ settings' = DefaultSettings
    /\ file' = [c \in Collections |-> Absent]
    /\ writeFailed' = FALSE
    /\ UNCHANGED <<req, now, nextId, started, market, clock, screen>>

----------------------------------------------------------------------------
(* SpecBundle: one goroutine serving MaxBundleOps requests, one after the   *)
(* other: Create on the three collections, UpdateSettings, Export, Import   *)
(* of the exported bundle or of another one, with restarts of the server    *)

MaxBundleOps == 3

OtherSettings == Settings(<<"Rent">>, <<"Stocks">>, <<"Bonus">>, <<"Cheque">>, <<"Asha">>)
MembersOnly == Settings(<<>>, <<>>, <<>>, <<>>, <<"Asha">>)

\* bundles a client may post: each collection absent or present, once with a
\* record twice, the settings with and without categories
ImportBundles ==
    {ExportData(i, n, e, s) :
        i \in {<<>>, <<GoodInvestment>>, <<GoodInvestment, GoodInvestment>>},
        n \in {<<>>, <<GoodIncome>>}, e \in {<<>>, <<GoodExpense>>},
        s \in {NoSettings, OtherSettings}}

\* NewDataStore on an empty data directory
InitBundle ==
    /\ mu = [writer |-> 0, readers |-> {}]
    /\ mem = [t \in Types |-> NilSlice]
    /\ settings = DefaultSettings
    /\ file = [c \in Collections |-> Absent]
    /\ req = [p \in Checker |-> IdleReq]
    /\ now = 1
    /\ nextId = 1
    /\ started = 0
    /\ writeFailed = FALSE
    /\ market = NoMarket
    /\ clock = <<>>
    /\ screen = [view |-> "none"]

PostGoodRecord(p) ==
    /\ started < MaxBundleOps
    /\ \/ CreateBegin(p, "investments", GoodInvestment)
       \/ CreateBegin(p, "incomes", GoodIncome)
       \/ CreateBegin(p, "expenses", GoodExpense)

PutSettings(p) ==
    /\ started < MaxBundleOps
    /\ \E s \in {OtherSettings, MembersOnly} : SettingsBegin(p, s)

GetExportBundle(p) ==
    /\ started < MaxBundleOps
    /\ GetExport(p)

PostExported(p) ==
    /\ started < MaxBundleOps + 1
    /\ req[p].pc = "done" /\ req[p].op = "export"
    /\ ImportLock(p, req[p].bundle)

PostBundle(p) ==
    /\ started < MaxBundleOps
    /\ \E b \in ImportBundles : ImportLock(p, b)

RestartServer(p) ==
    /\ started < MaxBundleOps
    /\ Restart(p)

StartFreshServer(p) == FreshStart(p)

NextBundle ==
    \E p \in Checker :
        \/ PostGoodRecord(p)
        \/ PutSettings(p)
        \/ GetExportBundle(p)
        \/ PostExported(p)
        \/ PostBundle(p)
        \/ RestartServer(p)
        \/ StartFreshServer(p)
        \/ AddLock(p)
        \/ AddAppend(p)
        \/ SettingsLock(p)
        \/ SettingsStore(p)
        \/ ImportStore(p)
        \/ SaveRLock(p)
        \/ SaveWriteOK(p)
        \/ SaveWriteFail(p)

SpecBundle == InitBundle /\ [][NextBundle]_vars

----------------------------------------------------------------------------
(* SpecMixed: two handler goroutines serving MaxMixedOps requests in all:  *)
(* Create on the three collections, UpdateSettings, List, and Update,      *)
(* Delete and Import on the investments                                     *)

MaxMixedOps == 3

MixedPost(p) ==
    /\ started < MaxMixedOps
    /\ \/ CreateBegin(p, "investments", GoodInvestment)
       \/ CreateBegin(p, "expenses", GoodExpense)

MixedPutSettings(p) ==
    /\ started < MaxMixedOps
    /\ SettingsBegin(p, OtherSettings)

MixedList(p) ==
    /\ started < MaxMixedOps
    /\ \E t \in {"investments", "expenses"} : ListBegin(p, t)

MixedPut(p) ==
    /\ started < MaxMixedOps
    /\ \E id \in KnownIDs : UpdateGet(p, "investments", id, UpdateBody)

MixedDelete(p) ==
    /\ started < MaxMixedOps
    /\ \E id \in KnownIDs : DeleteLock(p, "investments", id)

MixedImport(p) ==
    /\ started < MaxMixedOps
    /\ \E b \in Bundles : ImportLock(p, b)

NextMixed ==
    \E p \in Procs :
        \/ MixedPost(p)
        \/ MixedPutSettings(p)
        \/ MixedList(p)
        \/ MixedPut(p)
        \/ MixedDelete(p)
        \/ MixedImport(p)
        \/ AddLock(p)
        \/ AddAppend(p)
        \/ SettingsLock(p)
        \/ SettingsStore(p)
        \/ ListRLock(p)
        \/ ListEncode(p)
        \/ UpdateLookup(p)
        \/ UpdateLock(p)
        \/ UpdateStore(p)
        \/ DeleteStore(p)
        \/ ImportStore(p)
        \/ SaveRLock(p)
        \/ SaveWriteOK(p)

SpecMixed == Init /\ [][NextMixed]_vars

----------------------------------------------------------------------------
(* SpecRefresh: one goroutine serving MaxRefreshOps requests, one after the *)
(* other: Create and Delete of investments and NAV refreshes with batches   *)
(* of RefreshLen entries, each entry naming a stored id, no id or an id not *)
(* stored, with valid or invalid fields                                     *)

MaxRefreshOps == 3
RefreshLen == 3

RefreshEntries ==
    {NavEntry(id) : id \in KnownIDs \cup {0, MissingID}}
        \cup {[NavEntry(id) EXCEPT !.Invested = 0] : id \in KnownIDs}

RefreshBatches == [1..RefreshLen -> RefreshEntries]

RefreshPost(p) ==
    /\ started < MaxRefreshOps
    /\ CreateBegin(p, "investments", GoodInvestment)

RefreshDelete(p) ==
    /\ started < MaxRefreshOps
    /\ \E id \in KnownIDs : DeleteLock(p, "investments", id)

RefreshBatch(p) ==
    /\ started < MaxRefreshOps
    /\ \E batch \in RefreshBatches : RefreshBegin(p, batch)

NextRefresh ==
    \E p \in Checker :
        \/ RefreshPost(p)
        \/ RefreshDelete(p)
        \/ RefreshBatch(p)
        \/ AddLock(p)
        \/ AddAppend(p)
        \/ DeleteStore(p)
        \/ RefreshEntry(p)
        \/ RefreshLock(p)
        \/ RefreshStore(p)
        \/ SaveRLock(p)
        \/ SaveWriteOK(p)

SpecRefresh == InitValidate /\ [][NextRefresh]_vars

----------------------------------------------------------------------------
(* frontend: NAV refresh.  A price is [ok, nav]: ok is FALSE for null, the *)
(* answer of a lookup that failed.  Amounts are integers; the inputs are    *)
(* chosen so that every division is exact.                                  *)

Null == [ok |-> FALSE, nav |-> 0]
Quote(n) == [ok |-> TRUE, nav |-> n]

\* JavaScript truthiness of a price: neither null nor 0
Truthy(x) == x.ok /\ x.nav # 0

\* getLatestNAV(schemeCode): what the NAV service answers
getLatestNAV(schemeCode) ==
    IF schemeCode \in DOMAIN market THEN market[schemeCode].latest ELSE Null

\* getNAVOnDate(schemeCode, date): what the NAV service answers for the date
getNAVOnDate(schemeCode, date) ==
    IF schemeCode \in DOMAIN market THEN market[schemeCode].onDate ELSE Null

calculateUnits(investedAmount, nav) ==
    IF investedAmount = 0 \/ nav = 0 THEN 0 ELSE investedAmount \div nav

calculateCurrentValue_Adds(units, currentNav) ==
    IF units = 0 \/ currentNav = 0 THEN 0 ELSE units + currentNav

calculateCurrentValue(units, currentNav) ==
    IF units = 0 \/ currentNav = 0 THEN 0 ELSE units * currentNav

refreshInvestmentNAV(investment) ==
    IF investment.SchemeCode = "" THEN investment
    ELSE LET latestNAV == getLatestNAV(investment.SchemeCode) IN
    IF ~Truthy(latestNAV) THEN investment
    ELSE IF investment.Units # 0 /\ investment.Units > 0
    THEN [investment EXCEPT
             !.Current = calculateCurrentValue(investment.Units, latestNAV.nav)]
    ELSE IF investment.Invested # 0 /\ investment.Date # ""
    THEN LET purchaseNAV == getNAVOnDate(investment.SchemeCode, investment.Date) IN
         IF Truthy(purchaseNAV)
         THEN LET units == calculateUnits(investment.Invested, purchaseNAV.nav) IN
              [investment EXCEPT
                  !.Units = units,
                  !.Current = calculateCurrentValue(units, latestNAV.nav)]
         ELSE investment
    ELSE investment

\* handleRefreshNAV: refreshInvestmentNAV on each mutual fund with a scheme
\* code of the list the client holds, the results posted to
\* /investments/refresh-nav in one batch
HandleRefreshNAV(p) ==
    LET invArray == Coll(mem["investments"])
        mutualFunds ==
            SelectSeq(invArray,
                      LAMBDA inv : inv.Type = "Mutual Fund" /\ inv.SchemeCode # "")
        updatedInvestments ==
            [k \in 1..Len(mutualFunds) |-> refreshInvestmentNAV(mutualFunds[k])]
    IN /\ mutualFunds # <<>>
       /\ RefreshBegin(p, updatedInvestments)

----------------------------------------------------------------------------
(* SpecNav: a store started on an investments file, a NAV service, and a   *)
(* client that refreshes the NAV up to MaxNavOps times.  The file holds    *)
(* either one investment of any shape or FundCount mutual funds, with and  *)
(* without recorded units; the service answers each lookup with a price,   *)
(* with 0 or not at all.                                                    *)

MaxNavOps == 2
FundCount == 3

SchemeOf(k) == CASE k = 1 -> "100" [] k = 2 -> "101" [] k = 3 -> "102" [] OTHER -> "103"

\* a stored investment, the k-th of the file
Fund(k, typ, scheme, invested, date, units) ==
    Investment(k, "Fund", typ, invested, invested, date, scheme, units, 1, 1)

\* one investment of any shape
AnyFunds ==
    {<<Fund(1, typ, scheme, invested, date, units)>> :
        typ \in {"Mutual Fund", "Stocks"}, scheme \in {"", SchemeOf(1)},
        invested \in {0, 1000}, date \in {"", "2024-01-01"}, units \in {-5, 0, 12}}

\* FundCount mutual funds
FundLists ==
    {[k \in 1..FundCount |->
         Fund(k, "Mutual Fund", SchemeOf(k), 1000, "2024-01-01", u[k])] :
        u \in [1..FundCount -> {0, 12}]}

\* NewDataStore on a directory whose investments.json holds funds
StoreOn(funds) ==
    /\ mu = [writer |-> 0, readers |-> {}]
    /\ mem = [t \in Types |->
                IF t = "investments" THEN DecodedSlice(t, funds) ELSE NilSlice]
    /\ settings = DefaultSettings
    /\ file = [c \in Collections |->
                 CASE c = "investments" -> Written(funds)
                   [] c = "settings" -> Written(DefaultSettings)
                   [] OTHER -> Absent]
    /\ req = [p \in Checker |-> IdleReq]
    /\ now = 2
    /\ nextId = Len(funds) + 1
    /\ started = 0
    /\ writeFailed = FALSE
    /\ clock = <<>>
    /\ screen = [view |-> "none"]

InitNav ==
    \/ /\ \E funds \in AnyFunds : StoreOn(funds)
       /\ market \in [{SchemeOf(1)} ->
                         [latest : {Null, Quote(0), Quote(20)},
                          onDate : {Null, Quote(0), Quote(10)}]]
    \/ /\ \E funds \in FundLists : StoreOn(funds)
       /\ market \in [{SchemeOf(k) : k \in 1..FundCount} ->
                         [latest : {Null, Quote(20)}, onDate : {Null, Quote(10)}]]

ClickRefreshNAV(p) ==
    /\ started < MaxNavOps
    /\ HandleRefreshNAV(p)

NextNav ==
    \E p \in Checker :
        \/ ClickRefreshNAV(p)
        \/ RefreshEntry(p)
        \/ RefreshLock(p)
        \/ RefreshStore(p)
        \/ SaveRLock(p)
        \/ SaveWriteOK(p)

SpecNav == InitNav /\ [][NextNav]_vars

----------------------------------------------------------------------------
(* SpecLocks: two goroutines serving MaxLockOps requests of every kind     *)
(* between them, with store.ImportData taken one assignment at a time and  *)
(* file writes that may fail.  A goroutine that can take a step takes one. *)

MaxLockOps == 2

\* an import that leaves the mutex alone
ImportPartsLock_NoLock(p, bundle) ==
    /\ req[p].pc \in {"idle", "done"}
    /\ started' = started + 1
    /\ req' = [req EXCEPT ![p] = [IdleReq EXCEPT !.op = "import",
                    !.bundle = bundle, !.typ = "investments", !.pc = "imp_part"]]
    /\ UNCHANGED <<mu, mem, settings, file, now, nextId, writeFailed, market,
                   clock, screen>>

\* decode the bundle, store.ImportData: ds.mu.Lock(); typ is the collection
\* the next assignment is about
ImportPartsLock(p, bundle) ==
    /\ req[p].pc \in {"idle", "done"}
    /\ CanLock
    /\ started' = started + 1
    /\ mu' = [mu EXCEPT !.writer = p]
    /\ req' = [req EXCEPT ![p] = [IdleReq EXCEPT !.op = "import",
                    !.bundle = bundle, !.typ = "investments", !.pc = "imp_part"]]
    /\ UNCHANGED <<mem, settings, file, now, nextId, writeFailed, market,
                   clock, screen>>

\* store.ImportData: the next of its four conditional assignments, in the
\* order of the code; the deferred Unlock follows the last
ImportPart(p) ==
    LET b == req[p].bundle
        c == req[p].typ
        incoming == CASE c = "investments" -> b.Investments
                      [] c = "incomes" -> b.Incomes
                      [] c = "expenses" -> b.Expenses
                      [] OTHER -> <<>>
        frozen == IF Len(incoming) > 0 THEN FreezeSnaps(req, c) ELSE req
    IN /\ req[p].pc = "imp_part"
       /\ IF c = "settings"
          THEN /\ settings' = ImportedSettings(settings, b.Settings)
               /\ mem' = mem
               /\ mu' = [mu EXCEPT !.writer = 0]
               /\ req' = [req EXCEPT ![p] = [@ EXCEPT !.pc = "save_rlock",
                               !.typ = "investments", !.saveq = ImportSaves,
                               !.memDone = TRUE, !.touched = TRUE]]
          ELSE /\ mem' = [mem EXCEPT ![c] = ImportedSlice(c, @, incoming)]
               /\ settings' = settings
               /\ mu' = mu
               /\ req' = [frozen EXCEPT ![p].typ =
                            CASE c = "investments" -> "incomes"
                              [] c = "incomes" -> "expenses"
                              [] OTHER -> "settings"]
       /\ UNCHANGED <<file, now, nextId, started, writeFailed, market, clock, screen>>

\* the requests a client may send to goroutine p
LocksRequest(p) ==
    /\ started < MaxLockOps
    /\ \/ \E payload \in {GoodInvestment, BadInvestment} :
             CreateBegin(p, "investments", payload)
       \/ \E id \in KnownIDs \cup {MissingID} :
             UpdateGet(p, "investments", id, UpdateBody)
       \/ \E id \in KnownIDs \cup {MissingID} : DeleteLock(p, "investments", id)
       \/ ListBegin(p, "investments")
       \/ SettingsBegin(p, OtherSettings)
       \/ GetExport(p)
       \/ ImportPartsLock(p, ExportData(<<BadInvestment>>, <<>>, <<GoodExpense>>,
                                        OtherSettings))
       \/ RefreshBegin(p, <<NavEntry(1)>>)

NextLocks ==
    \E p \in Procs :
        \/ LocksRequest(p)
        \/ AddLock(p)
        \/ AddAppend(p)
        \/ UpdateLookup(p)
        \/ UpdateLock(p)
        \/ UpdateStore(p)
        \/ DeleteStore(p)
        \/ ListRLock(p)
        \/ ListEncode(p)
        \/ SettingsLock(p)
        \/ SettingsStore(p)
        \/ ImportPart(p)
        \/ RefreshEntry(p)
        \/ RefreshLock(p)
        \/ RefreshStore(p)
        \/ SaveRLock(p)
        \/ SaveWriteOK(p)
        \/ SaveWriteFail(p)

SpecLocks == Init /\ [][NextLocks]_vars /\ WF_vars(NextLocks)

----------------------------------------------------------------------------
(* frontend: calculations and the views that show them.  An ISO date       *)
(* "YYYY-MM-DD" is the tuple <<y, m, d>>, a month "YYYY-MM" is <<y, m>> and *)
(* "" is <<>>, so that a string's prefixes are the tuple's.  The records    *)
(* come from the backend's JSON, which carries every field: a field that   *)
(* is missing there is 0 or "" here, and `x || 0` is x.                     *)

\* String.prototype.startsWith
startsWith(str, prefix) ==
    /\ Len(prefix) <= Len(str)
    /\ SubSeq(str, 1, Len(prefix)) = prefix

\* Date arithmetic on the month field: new Date(y, m + k, 1) normalises
AddMonths(month, k) ==
    LET n == month[1] * 12 + (month[2] - 1) + k
    IN <<n \div 12, (n % 12) + 1>>

\* new Date().toISOString().slice(0, 7): the month of the UTC clock, which
\* is the month before the local one in the first hours of a month east of
\* UTC and the month after it in the last hours of a month west of UTC
getCurrentMonth ==
    CASE clock.zone > 0 /\ clock.edge = "first" -> AddMonths(clock.month, -1)
      [] clock.zone < 0 /\ clock.edge = "last" -> AddMonths(clock.month, 1)
      [] OTHER -> clock.month

RECURSIVE calculateTotalInvested(_)
calculateTotalInvested(investments) ==
    IF investments = <<>> THEN 0
    ELSE calculateTotalInvested(SubSeq(investments, 1, Len(investments) - 1))
            + investments[Len(investments)].Invested

RECURSIVE calculateTotalCurrent(_)
calculateTotalCurrent(investments) ==
    IF investments = <<>> THEN 0
    ELSE calculateTotalCurrent(SubSeq(investments, 1, Len(investments) - 1))
            + investments[Len(investments)].Current

calculateTotalGain(investments) ==
    calculateTotalCurrent(investments) - calculateTotalInvested(investments)

\* a percentage that divides whenever the total invested is not 0
calculateGainPercentage_NoGuard(investments) ==
    LET totalInvested == calculateTotalInvested(investments)
        totalGain == calculateTotalGain(investments)
    IN IF totalInvested # 0 THEN (totalGain * 100) \div totalInvested ELSE 0

\* (totalGain / totalInvested) * 100, in whole percents
calculateGainPercentage(investments) ==
    LET totalInvested == calculateTotalInvested(investments)
        totalGain == calculateTotalGain(investments)
    IN IF totalInvested > 0 THEN (totalGain * 100) \div totalInvested ELSE 0

\* reduce((sum, x) => sum + (x.amount || 0), 0)
RECURSIVE SumAmount(_)
SumAmount(records) ==
    IF records = <<>> THEN 0
    ELSE SumAmount(SubSeq(records, 1, Len(records) - 1))
            + records[Len(records)].Amount

\* filter(x => x.date?.startsWith(month))
FilterMonth(records, month) ==
    SelectSeq(records, LAMBDA x : startsWith(x.Date, month))

\* month is <<>> when the caller leaves it out
calculateMonthlyExpenses(expenses, month) ==
    LET targetMonth == IF month = <<>> THEN getCurrentMonth ELSE month
    IN SumAmount(FilterMonth(expenses, targetMonth))

\* acc[key] = (acc[key] || 0) + amount
Accumulate(acc, key, amount) ==
    [k \in DOMAIN acc \cup {key} |->
        (IF k \in DOMAIN acc THEN acc[k] ELSE 0) + (IF k = key THEN amount ELSE 0)]

RECURSIVE groupExpensesByCategory(_)
groupExpensesByCategory(expenses) ==
    IF expenses = <<>> THEN [k \in {} |-> 0]
    ELSE LET acc == groupExpensesByCategory(SubSeq(expenses, 1, Len(expenses) - 1))
             exp == expenses[Len(expenses)]
         IN IF exp.Category # "" THEN Accumulate(acc, exp.Category, exp.Amount)
            ELSE acc

\* a grouping that leaves out the expenses without a member
RECURSIVE groupExpensesByMember_SkipsEmpty(_)
groupExpensesByMember_SkipsEmpty(expenses) ==
    IF expenses = <<>> THEN [k \in {} |-> 0]
    ELSE LET acc == groupExpensesByMember_SkipsEmpty(
                        SubSeq(expenses, 1, Len(expenses) - 1))
             exp == expenses[Len(expenses)]
         IN IF exp.AddedBy # "" THEN Accumulate(acc, exp.AddedBy, exp.Amount)
            ELSE acc

RECURSIVE groupExpensesByMember(_)
groupExpensesByMember(expenses) ==
    IF expenses = <<>> THEN [k \in {} |-> 0]
    ELSE LET acc == groupExpensesByMember(SubSeq(expenses, 1, Len(expenses) - 1))
             exp == expenses[Len(expenses)]
             member == IF exp.AddedBy # "" THEN exp.AddedBy ELSE "Unknown"
         IN Accumulate(acc, member, exp.Amount)

\* a net total that adds the gain whatever its sign
SummaryView_CountsLosses ==
    LET invArray == Coll(mem["investments"])
        incArray == Coll(mem["incomes"])
        expArray == Coll(mem["expenses"])
        totalInvested == calculateTotalInvested(invArray)
        totalGain == calculateTotalGain(invArray)
        totalIncome == SumAmount(incArray)
        totalExpenses == calculateMonthlyExpenses(expArray, <<>>)
    IN [view |-> "summary", totalInvested |-> totalInvested,
        totalCurrent |-> calculateTotalCurrent(invArray), totalGain |-> totalGain,
        totalIncome |-> totalIncome, totalExpenses |-> totalExpenses,
        totalSavings |-> totalGain,
        netTotal |-> totalIncome - totalExpenses - totalInvested + totalGain]

\* SummaryView: the totals of the summary tab
SummaryView ==
    LET invArray == Coll(mem["investments"])
        incArray == Coll(mem["incomes"])
        expArray == Coll(mem["expenses"])
        totalInvested == calculateTotalInvested(invArray)
        totalGain == calculateTotalGain(invArray)
        totalIncome == SumAmount(incArray)
        totalExpenses == calculateMonthlyExpenses(expArray, <<>>)
        totalSavings == IF totalGain >= 0 THEN totalGain ELSE 0
    IN [view |-> "summary", totalInvested |-> totalInvested,
        totalCurrent |-> calculateTotalCurrent(invArray), totalGain |-> totalGain,
        totalIncome |-> totalIncome, totalExpenses |-> totalExpenses,
        totalSavings |-> totalSavings,
        netTotal |-> totalIncome - totalExpenses - totalInvested + totalSavings]

\* Dashboard: the totals and groupings of the dashboard
Dashboard ==
    LET investments == Coll(mem["investments"])
        expenses == Coll(mem["expenses"])
        monthlyExpenses == FilterMonth(expenses, getCurrentMonth)
    IN [view |-> "dashboard",
        totalInvested |-> calculateTotalInvested(investments),
        totalCurrent |-> calculateTotalCurrent(investments),
        totalGain |-> calculateTotalGain(investments),
        gainPct |-> calculateGainPercentage(investments),
        monthlyExpenses |-> monthlyExpenses,
        totalMonthly |-> calculateMonthlyExpenses(expenses, <<>>),
        byCategory |-> groupExpensesByCategory(monthlyExpenses),
        byMember |-> groupExpensesByMember(monthlyExpenses)]

\* AnalyticsView.getMonthlyTrends: i runs from 5 down to 0; the key is the
\* UTC month of local midnight on the first of the month i months back, the
\* label is that local month's name, kept as its number
getMonthlyTrends ==
    LET expArray == Coll(mem["expenses"])
    IN [k \in 1..6 |->
          LET date == AddMonths(clock.month, -(6 - k))
              monthKey == IF clock.zone > 0 THEN AddMonths(date, -1) ELSE date
          IN [month |-> date[2],
              amount |-> SumAmount(FilterMonth(expArray, monthKey))]]

\* AnalyticsView: selectedMonth is <<>> for null
AnalyticsView(selectedMonth) ==
    LET currentMonth == IF selectedMonth = <<>> THEN getCurrentMonth ELSE selectedMonth
        monthlyInvArray == FilterMonth(Coll(mem["investments"]), currentMonth)
        monthlyExpArray == FilterMonth(Coll(mem["expenses"]), currentMonth)
    IN [view |-> "analytics", currentMonth |-> currentMonth,
        totalGain |-> calculateTotalGain(monthlyInvArray),
        gainPct |-> calculateGainPercentage(monthlyInvArray),
        totalMonthly |-> calculateMonthlyExpenses(monthlyExpArray, <<>>),
        byCategory |-> groupExpensesByCategory(monthlyExpArray),
        monthlyTrends |-> getMonthlyTrends]

----------------------------------------------------------------------------
(* SpecViews: a browser showing what a store holds.  The store holds up to *)
(* MaxViewLen records of each type; the browser's clock is in January 2025 *)
(* local time, west of UTC, in UTC or east of it, in the first hours of    *)
(* the month, the last ones or in between.                                  *)

MaxViewLen == 2

\* the lists of up to MaxViewLen records out of S, numbered as stored
ListsOf(S) ==
    {[k \in 1..n |-> [l[k] EXCEPT !.ID = k]] :
        n \in 0..MaxViewLen, l \in [1..MaxViewLen -> S]}

ViewInvestments ==
    {Investment(0, "Fund", "Stocks", a[1], a[2], <<2025, 1, 10>>, "", 0, 1, 1) :
        a \in {<<0, 50>>, <<100, 150>>, <<200, 100>>, <<-100, 0>>}}

ViewIncome == Income(1, "Salary", 500, "Salary", <<2024, 12, 31>>, "Ravi", "Online", 1, 1)

ViewExpenses ==
    {Expense(0, "Spent", a[1], a[2], d, a[3], "UPI", 1, 1) :
        a \in {<<30, "Food", "Ravi">>, <<70, "", "">>, <<50, "Rent", "Unknown">>},
        d \in {<<>>, <<2025, 1, 15>>, <<2024, 12, 31>>, <<2024, 8, 1>>, <<2024, 7, 20>>}}

ViewClocks ==
    [zone : {-1, 0, 1}, month : {<<2025, 1>>}, edge : {"first", "middle", "last"}]

\* the month picker's values; <<>> is no selection
SelectedMonths == {<<>>, <<2025, 1>>, <<2024, 12>>}

\* a store holding the three lists, shown by a browser whose clock is c
Showing(investments, incomes, expenses, c) ==
    /\ mu = [writer |-> 0, readers |-> {}]
    /\ mem = [t \in Types |->
                DecodedSlice(t, CASE t = "investments" -> investments
                                  [] t = "incomes" -> incomes
                                  [] OTHER -> expenses)]
    /\ settings = DefaultSettings
    /\ file = [c2 \in Collections |->
                 IF c2 = "settings" THEN Written(DefaultSettings)
                 ELSE Written(Coll(mem[c2]))]
    /\ req = [p \in Checker |-> IdleReq]
    /\ now = 2
    /\ nextId = 1
    /\ started = 0
    /\ writeFailed = FALSE
    /\ market = NoMarket
    /\ clock = c
    /\ screen = [view |-> "none"]

InitViews ==
    \/ \E investments \in ListsOf(ViewInvestments), incomes \in {<<>>, <<ViewIncome>>} :
          Showing(investments, incomes,
                  <<[CHOOSE e \in ViewExpenses :
                        e.Date = <<2025, 1, 15>> /\ e.Amount = 30 EXCEPT !.ID = 1]>>,
                  [zone |-> 0, month |-> <<2025, 1>>, edge |-> "middle"])
    \/ \E expenses \in ListsOf(ViewExpenses), c \in ViewClocks :
          Showing(<<[CHOOSE i \in ViewInvestments : i.Invested = 100 EXCEPT !.ID = 1]>>,
                  <<ViewIncome>>, expenses, c)

RenderSummary ==
    /\ screen' = SummaryView
    /\ UNCHANGED <<mu, mem, settings, file, req, now, nextId, started, writeFailed,
                   market, clock>>

RenderDashboard ==
    /\ screen' = Dashboard
    /\ UNCHANGED <<mu, mem, settings, file, req, now, nextId, started, writeFailed,
                   market, clock>>

RenderAnalytics ==
    /\ \E selectedMonth \in SelectedMonths : screen' = AnalyticsView(selectedMonth)
    /\ UNCHANGED <<mu, mem, settings, file, req, now, nextId, started, writeFailed,
                   market, clock>>

NextViews ==
    \/ RenderSummary
    \/ RenderDashboard
    \/ RenderAnalytics

SpecViews == InitViews /\ [][NextViews]_vars

----------------------------------------------------------------------------
(* Properties *)

InFlight(p) == req[p].pc \notin {"idle", "done"}
Quiescent == \A p \in DOMAIN req : ~InFlight(p)
Investments == mem["investments"]
IDsOf(s) == [i \in 1..s.len |-> s.arr[i].ID]

\* p's in-memory mutation is done and its file write is not
Unsaved(p) == req[p].memDone /\ req[p].pc \in {"save_rlock", "save_write"}

\* C1: a mutating operation holds the exclusive lock from its in-memory
\* update until its file write has finished, so no second Add is past its
\* own in-memory update while the first is not yet persisted
C1_WriteLockHeldUntilPersisted ==
    /\ \A p \in DOMAIN req : Unsaved(p) => mu.writer = p
    /\ \A p, q \in DOMAIN req :
          (p # q /\ req[p].op = "create" /\ req[q].op = "create")
              => ~(Unsaved(p) /\ Unsaved(q))

\* C2: once no request is in flight and no file write has failed, every
\* collection's file holds what is in memory
C2_FilesMirrorMemoryWhenQuiescent ==
    (Quiescent /\ ~writeFailed)
        => \A c \in Collections : file[c] = Written(MemContent(c))

\* the same for the collections some handler saves after ImportData
FilesSavedMirrorMemoryWhenQuiescent ==
    (Quiescent /\ ~writeFailed)
        => \A c \in Collections \ {"incomes"} : file[c] = Written(MemContent(c))

\* C3: the concurrent Adds that passed validation and appended are all in the
\* collection, once each, under pairwise distinct ids, and all on file once
\* the requests are over and no write failed
C3_ConcurrentAddsAllKept ==
    LET added == {p \in DOMAIN req : req[p].memDone}
    IN /\ Investments.len = Cardinality(added)
       /\ \A p \in added :
             Cardinality({i \in 1..Investments.len :
                             Investments.arr[i].ID = req[p].id}) = 1
       /\ \A i, j \in 1..Investments.len :
             i # j => Investments.arr[i].ID # Investments.arr[j].ID
       /\ (Quiescent /\ ~writeFailed)
             => file["investments"] = Written(Coll(Investments))

\* every goroutine's Add is in memory and none is persisted yet
C3_Witness ==
    /\ Investments.len = MaxAdders
    /\ \A p \in DOMAIN req : req[p].pc = "save_rlock"

\* r holds the record its handler built: on its way to the store and the
\* file, or in the answer
CarriesRecord(r) ==
    \/ r.pc \in {"add_lock", "add_append", "upd_lock", "upd_store",
                 "save_rlock", "save_write"}
    \/ r.pc = "done" /\ r.body = "record"

\* p's step runs store.Update* (from Update or RefreshNAV)
UpdateStep(p) ==
    req[p].pc \in {"upd_store", "nav_store"} /\ req'[p].pc # req[p].pc

\* p's step runs store.Add*'s append
AppendStep(p) == req[p].pc = "add_append" /\ req'[p].pc # req[p].pc

\* C4: the id of a new record is the server's uuid, not the id of the body;
\* an Update keeps the id of the URL whatever id the body carries, and no
\* Update or NAV refresh changes the id of any stored record
C4_IdServerAssignedAndImmutable ==
    /\ [](\A p \in DOMAIN req :
            /\ (req[p].op = "update" /\ CarriesRecord(req[p]))
                  => req[p].rec.ID = req[p].id
            /\ (req[p].op = "create" /\ CarriesRecord(req[p]))
                  => (req[p].rec.ID \in 1..(nextId - 1) /\ req[p].rec.ID # ClientID))
    /\ [][\A p \in DOMAIN req :
            /\ UpdateStep(p) => IDsOf(Investments') = IDsOf(Investments)
            /\ AppendStep(p) =>
                  IDsOf(mem'[req[p].typ])
                     = Append(IDsOf(mem[req[p].typ]), req[p].rec.ID)]_vars

\* an Update whose body carried another id was answered with the record,
\* which is stored under the id of the URL
C4_Witness ==
    \E p \in DOMAIN req :
        /\ req[p].op = "update" /\ req[p].status = StatusOK
        /\ req[p].id # ClientID
        /\ \E i \in 1..Investments.len :
              /\ Investments.arr[i].ID = req[p].id
              /\ Investments.arr[i].Current = UpdateBody.Current

\* C5: createdAt = updatedAt in a new record; an Update or a NAV refresh
\* leaves the record's createdAt as it was and sets its updatedAt to the
\* time of the request
C5_TimestampsMaintained ==
    /\ [](\A p \in DOMAIN req :
            (req[p].op = "create" /\ CarriesRecord(req[p]))
                => (req[p].rec.CreatedAt = req[p].rec.UpdatedAt
                    /\ req[p].rec.CreatedAt \in 1..(now - 1)))
    /\ [][\A p \in DOMAIN req :
            LET i == IndexOfID(Coll(Investments), req[p].id)
            IN (UpdateStep(p) /\ i # 0) =>
                  /\ Investments'.arr[i].CreatedAt = Investments.arr[i].CreatedAt
                  /\ Investments'.arr[i].UpdatedAt = req[p].rec.UpdatedAt]_vars

\* the rules of the validation layer, as the claim states them
InvestmentRules(r) ==
    r.Name # "" /\ r.Type # "" /\ r.Date # "" /\ r.Invested > 0 /\ r.Current >= 0
IncomeRules(r) ==
    r.Source # "" /\ r.Category # "" /\ r.Date # "" /\ r.AddedBy # "" /\ r.Amount > 0
ExpenseRules(r) ==
    r.Desc # "" /\ r.Category # "" /\ r.Date # "" /\ r.AddedBy # "" /\ r.Amount > 0
Rules(t, r) ==
    CASE t = "investments" -> InvestmentRules(r)
      [] t = "incomes" -> IncomeRules(r)
      [] t = "expenses" -> ExpenseRules(r)

\* C6: a Create, or an Update of a stored id, goes on to the store exactly
\* when its record passes the rules of its type, and is answered with a
\* validation error exactly when it does not
C6_AdmittedIffRulesPass ==
    \A p \in DOMAIN req :
        LET r == req[p] IN
        r.op \in {"create", "update"} =>
            /\ r.pc \in {"add_lock", "add_append", "upd_lock", "upd_store",
                         "save_rlock", "save_write"} => Rules(r.typ, r.rec)
            /\ r.pc = "done" =>
                  \/ r.body = "record" /\ Rules(r.typ, r.rec)
                        /\ r.status \in {StatusOK, StatusCreated}
                  \/ r.body = "Validation error" /\ ~Rules(r.typ, r.rec)
                        /\ r.status = StatusBadRequest
                  \/ r.body = "not found" /\ r.op = "update"

\* an investment of 0.01 with current value 0 and a scheme code was created
C6_Witness ==
    \E p \in DOMAIN req :
        /\ req[p].op = "create" /\ req[p].typ = "investments"
        /\ req[p].body = "record"
        /\ req[p].rec.Invested = 1 /\ req[p].rec.Current = 0
        /\ req[p].rec.SchemeCode # ""

\* p's Create or Update is answered with a validation or a not-found error
Rejected(r) ==
    /\ r.op \in {"create", "update"} /\ r.pc = "done"
    /\ r.status \in {StatusBadRequest, StatusNotFound}

\* C7: a Create or Update rejected as invalid or not found never wrote to
\* memory or to a file, and the step that rejects it changes neither
C7_RejectedHasNoEffect ==
    /\ [](\A p \in DOMAIN req :
            Rejected(req[p]) => (~req[p].touched /\ ~req[p].memDone))
    /\ [][\A p \in DOMAIN req :
            (req'[p] # req[p] /\ Rejected(req'[p]))
                => (mem' = mem /\ file' = file /\ settings' = settings)]_vars

\* with investments stored, a Create was rejected as invalid and an Update
\* as not found
C7_Witness ==
    /\ Investments.len > 0
    /\ \E p, q \in DOMAIN req :
          /\ Rejected(req[p]) /\ req[p].op = "create"
          /\ Rejected(req[q]) /\ req[q].op = "update"
          /\ req[q].status = StatusNotFound

\* C8: an Update or a Delete that does not find its id in the collection is
\* answered with the not-found caller error, also when the record went away
\* while the request was running
C8_MissingIdIsNotFound ==
    \A p \in DOMAIN req :
        (/\ req[p].op \in {"update", "delete"} /\ req[p].pc = "done"
         /\ ~req[p].memDone /\ req[p].body # "Validation error")
            => req[p].status = StatusNotFound

\* p's step is a Save* whose os.WriteFile fails
SaveFailStep(p) ==
    /\ req[p].pc = "save_write" /\ req'[p].pc # "save_write"
    /\ ~file'[Head(req[p].saveq)].intact

\* C9: when the file write of an Add, Update or Delete fails, memory is left
\* as the mutation made it and the answer is an error that is not the
\* validation error
C9_SaveFailureKeepsMemory ==
    [][\A p \in DOMAIN req :
          (SaveFailStep(p) /\ req[p].op \in {"create", "update", "delete"})
              => /\ mem' = mem
                 /\ req'[p].memDone
                 /\ req'[p].status >= StatusBadRequest
                 /\ req'[p].status # StatusBadRequest
                 /\ req'[p].body # "Validation error"]_vars

\* the save of a Create failed and its record is in memory
C9_Witness ==
    \E p \in DOMAIN req :
        /\ req[p].op = "create" /\ req[p].body = "Failed to save"
        /\ \E i \in 1..Investments.len : Investments.arr[i].ID = req[p].id

\* C10 as stated: a Create or Update whose in-memory mutation succeeded is
\* answered with the record, also when its file write failed
C10_ResultSurvivesSaveFailure ==
    \A p \in DOMAIN req :
        (req[p].op \in {"create", "update"} /\ req[p].pc = "done" /\ req[p].memDone)
            => (req[p].body = "record"
                /\ req[p].status \in {StatusOK, StatusCreated})

\* C10 as amended: when the file write of a Create or Update fails, the
\* answer is the internal error alone, without the record, and memory keeps
\* the record
C10_SaveFailureReplacesResult ==
    [][\A p \in DOMAIN req :
          (SaveFailStep(p) /\ req[p].op \in {"create", "update"})
              => /\ req'[p].pc = "done"
                 /\ req'[p].status = StatusInternalServerError
                 /\ req'[p].body = "Failed to save"
                 /\ req'[p].rec = IdleReq.rec
                 /\ mem' = mem]_vars

\* the save of an Update failed and the updated record is in memory
C10_Witness ==
    \E p \in DOMAIN req :
        /\ req[p].op = "update" /\ req[p].body = "Failed to save"
        /\ \E i \in 1..Investments.len :
              /\ Investments.arr[i].ID = req[p].id
              /\ Investments.arr[i].Current = UpdateBody.Current

\* p's step runs store.ImportData
ImportStep(p) == req[p].pc = "imp_store" /\ req'[p].pc # "imp_store"

\* the collection of bundle b that goes to collection c
BundlePart(b, c) ==
    CASE c = "investments" -> b.Investments
      [] c = "incomes" -> b.Incomes
      [] c = "expenses" -> b.Expenses
      [] c = "settings" -> b.Settings

\* C11: an Import replaces each collection by the bundle's when the bundle's
\* is not empty, without appending or dropping duplicates, and leaves it as it
\* was otherwise; the settings are replaced when the bundle's category list
\* is not empty and left otherwise; no collection that held records is empty
\* after an import
C11_ImportReplacesNonEmptyOnly ==
    [][\A p \in DOMAIN req :
          ImportStep(p) =>
             LET b == req[p].bundle IN
             /\ \A t \in Types :
                   /\ BundlePart(b, t) # <<>> => Coll(mem'[t]) = BundlePart(b, t)
                   /\ BundlePart(b, t) = <<>> => Coll(mem'[t]) = Coll(mem[t])
                   /\ Coll(mem[t]) # <<>> => Coll(mem'[t]) # <<>>
             /\ b.Settings.Categories # <<>> => settings' = b.Settings
             /\ b.Settings.Categories = <<>> => settings' = settings]_vars

\* a bundle with the same investment twice and no expenses was imported into
\* a store holding an expense: both copies are stored, the expense is kept
C11_Witness ==
    \E p \in DOMAIN req :
        /\ req[p].op = "import" /\ req[p].pc = "save_rlock" /\ req[p].memDone
        /\ req[p].bundle.Investments = <<GoodInvestment, GoodInvestment>>
        /\ Coll(Investments) = req[p].bundle.Investments
        /\ req[p].bundle.Expenses = <<>>
        /\ mem["expenses"].len > 0

\* Import replaces collection c by that of bundle b
Replaced(b, c) ==
    IF c = "settings" THEN b.Settings.Categories # <<>> ELSE BundlePart(b, c) # <<>>

\* C12: when an Import is answered with success, the file of every
\* collection it replaced holds the collection as imported
C12_ImportPersistsReplaced ==
    [][\A p \in DOMAIN req :
          (/\ req[p].op = "import" /\ req[p].pc # "done"
           /\ req'[p].pc = "done" /\ req'[p].status = StatusOK)
             => \A c \in Collections :
                   Replaced(req[p].bundle, c)
                      => (file'[c] = Written(BundlePart(req[p].bundle, c))
                          /\ MemContent(c) = BundlePart(req[p].bundle, c))]_vars

\* bundle b holds a record
HasRecords(b) == \E t \in Types : BundlePart(b, t) # <<>>

\* the store as NewDataStore leaves it on an empty data directory
FreshStore == (\A t \in Types : mem[t].len = 0) /\ settings = DefaultSettings

\* C13 as stated: importing the export of a store state S that holds records
\* into S itself or into a freshly started store yields S in all four
\* collections (a bundle is the export of the store state that holds what
\* the bundle holds)
C13_ExportImportYieldsSame ==
    [][\A p \in DOMAIN req :
          (/\ ImportStep(p) /\ HasRecords(req[p].bundle)
           /\ (GetExportData = req[p].bundle \/ FreshStore))
             => GetExportData' = req[p].bundle]_vars

\* C13 as amended: importing the export of S into S itself yields S;
\* importing it into a freshly started store yields the three entity
\* collections of S, and the settings of S when their category list is not
\* empty, the built-in defaults otherwise
C13_ExportImportRoundTrip ==
    [][\A p \in DOMAIN req :
          LET b == req[p].bundle IN
          (ImportStep(p) /\ HasRecords(b)) =>
             /\ GetExportData = b => GetExportData' = b
             /\ FreshStore =>
                   /\ \A t \in Types : Coll(mem'[t]) = BundlePart(b, t)
                   /\ b.Settings.Categories # <<>> => settings' = b.Settings
                   /\ b.Settings.Categories = <<>> => settings' = DefaultSettings]_vars

\* the export of a store with a created record and its own settings was
\* imported into a server started on an empty directory, which now equals it
C13_Witness ==
    \E p \in DOMAIN req :
        /\ req[p].op = "import" /\ req[p].pc = "save_rlock" /\ req[p].memDone
        /\ GetExportData = req[p].bundle
        /\ \A c \in Collections : file[c] = Absent
        /\ \E t \in Types : \E i \in 1..mem[t].len : mem[t].arr[i].ID \in 1..(nextId - 1)
        /\ settings = OtherSettings

\* C14: when a save of an Import fails and other collections are still to
\* be saved, the handler goes on to save them instead of answering
C14_ImportGoesOnAfterFailedSave ==
    [][\A p \in DOMAIN req :
          (SaveFailStep(p) /\ req[p].op = "import" /\ Tail(req[p].saveq) # <<>>)
             => (req'[p].pc = "save_rlock"
                 /\ req'[p].saveq = Tail(req[p].saveq))]_vars

\* the step is a start of the server on its data directory
RestartStep(p) == req'[p].op = "restart" /\ started' = started + 1

\* what the latest successful write left in file f, if there was one
LastWritten(f, none) == IF Exists(f) THEN f.data ELSE none

\* C20: a store started on a data directory holds in each collection what
\* the latest successful write left in the collection's file; for a file
\* never written it holds an empty collection, and the built-in defaults for
\* the settings
C20_StartHoldsLastWritten ==
    [][\A p \in DOMAIN req :
          RestartStep(p) =>
             /\ \A t \in Types : Coll(mem'[t]) = LastWritten(file[t], <<>>)
             /\ settings' = LastWritten(file["settings"], DefaultSettings)]_vars

\* the same for the files whose latest write succeeded, and for the files
\* never written
StartHoldsIntactFiles ==
    [][\A p \in DOMAIN req :
          RestartStep(p) =>
             /\ \A t \in Types :
                   (file[t].intact \/ ~Exists(file[t]))
                      => Coll(mem'[t]) = LastWritten(file[t], <<>>)
             /\ (file["settings"].intact \/ ~Exists(file["settings"]))
                   => settings' = LastWritten(file["settings"], DefaultSettings)]_vars

\* p holds ds.mu, as the writer or as a reader
Holds(p) == mu.writer = p \/ p \in mu.readers

\* q is about to call ds.mu.Lock()
WantsLock(q) == req[q].pc \in {"add_lock", "upd_lock", "set_lock"}

\* C15: while a write of one entity type is in progress (its in-memory
\* update or its file write), a writer of another entity type can take its
\* lock, and a reader is not held up by a file write
C15_OtherTypesNotBlocked ==
    \A p, q \in DOMAIN req :
        p # q =>
           /\ (/\ Holds(p) /\ req[p].op \in {"create", "update", "delete", "settings"}
               /\ WantsLock(q) /\ req[q].typ # req[p].typ) => CanLock
           /\ (/\ p \in mu.readers /\ req[p].pc = "save_write"
               /\ req[q].pc = "list_rlock") => CanRLock

\* the same for the readers alone
ReadersNotBlockedBySave ==
    \A p, q \in DOMAIN req :
        (/\ p # q /\ p \in mu.readers /\ req[p].pc = "save_write"
         /\ req[q].pc = "list_rlock") => CanRLock

\* C16: the records and the order of a list a caller was handed are not
\* changed by what other requests do to the store while the caller reads it
C16_ReturnedListIsSnapshot ==
    [][\A p \in DOMAIN req :
          (req[p].pc = "list_encode" /\ req'[p].pc = "list_encode")
             => SnapView(req[p].typ, req[p].snap)'
                   = SnapView(req[p].typ, req[p].snap)]_vars

\* entry e of a NAV refresh can be applied: it names a stored investment and
\* its fields pass the rules
Applicable(e) ==
    /\ e.ID # 0
    /\ \E i \in 1..Investments.len : Investments.arr[i].ID = e.ID
    /\ InvestmentRules(e)

\* p's step ends the turn of the first entry left of its batch
EntryStep(p) ==
    /\ req[p].op = "refresh" /\ req[p].pc \in {"nav_entry", "nav_store"}
    /\ req[p].batch # <<>>
    /\ req'[p] # req[p] /\ req'[p].pc = "nav_entry"

PriceUnavailable(s) ==
    \/ ~Truthy(getLatestNAV(s.SchemeCode))
    \/ ~(s.Units > 0) /\ ~Truthy(getNAVOnDate(s.SchemeCode, s.Date))

\* C18: in a batch NAV refresh, a valid stored fund whose price lookup
\* yields nothing keeps every field of its stored record and is not
\* counted; any other fund of the batch is counted and ends with
\* current = units x latest price; the batch goes on either way
C18_UnavailablePriceLeavesRecord ==
    [][\A p \in DOMAIN req :
          EntryStep(p) =>
             LET e == Head(req[p].batch)
                 i == IndexOfID(Coll(Investments), e.ID)
                 s == Investments.arr[i]
             IN InvestmentRules(s) =>
                  /\ req'[p].batch = Tail(req[p].batch)
                  /\ PriceUnavailable(s) =>
                        (Investments' = Investments /\ req'[p].count = req[p].count)
                  /\ ~PriceUnavailable(s) =>
                        /\ req'[p].count = req[p].count + 1
                        /\ Investments'.arr[i].Current
                              = Investments'.arr[i].Units
                                   * getLatestNAV(s.SchemeCode).nav]_vars

\* the funds with a price end with current = units x latest price and are
\* counted, and no entry aborts the batch
PricedFundsRefreshed ==
    [][\A p \in DOMAIN req :
          EntryStep(p) =>
             LET e == Head(req[p].batch)
                 i == IndexOfID(Coll(Investments), e.ID)
                 s == Investments.arr[i]
             IN InvestmentRules(s) =>
                  /\ req'[p].batch = Tail(req[p].batch)
                  /\ ~PriceUnavailable(s) =>
                        /\ req'[p].count = req[p].count + 1
                        /\ Investments'.arr[i].Current
                              = Investments'.arr[i].Units
                                   * getLatestNAV(s.SchemeCode).nav]_vars

\* what RefreshOne yields for inv, where an answer of the service counts as
\* a price when it is one and, unless zeroIsPrice, it is not zero
RefreshOneResult(inv, zeroIsPrice) ==
    LET latest == getLatestNAV(inv.SchemeCode)
        purchase == getNAVOnDate(inv.SchemeCode, inv.Date)
        usable(q) == q.ok /\ (zeroIsPrice \/ q.nav # 0)
        units == IF purchase.nav = 0 THEN 0 ELSE inv.Invested \div purchase.nav
    IN IF inv.SchemeCode = "" \/ ~usable(latest) THEN inv
       ELSE IF inv.Units > 0
       THEN [inv EXCEPT !.Current = inv.Units * latest.nav]
       ELSE IF inv.Date = "" \/ ~usable(purchase) THEN inv
       ELSE [inv EXCEPT !.Units = units, !.Current = units * latest.nav]

\* C19 as stated: with recorded units the result has current = units x
\* latest price whatever the price on the purchase date; without, units =
\* invested / price on the purchase date, 0 when that price is zero, and
\* current = units x latest price; with no scheme identifier or a price
\* that is not available the result is the input
C19_RefreshOneAsStated ==
    \A i \in 1..Investments.len :
        refreshInvestmentNAV(Investments.arr[i])
           = RefreshOneResult(Investments.arr[i], TRUE)

\* C19: the same, where a price of zero counts as not available and, with
\* no units recorded, so does an invested amount of zero
C19_RefreshOneZeroIsUnavailable ==
    \A i \in 1..Investments.len :
        LET inv == Investments.arr[i]
        IN refreshInvestmentNAV(inv)
              = IF ~(inv.Units > 0) /\ inv.Invested = 0 THEN inv
                ELSE RefreshOneResult(inv, FALSE)

\* a refreshed fund is stored with the units derived from the price on its
\* purchase date and the value they have at the latest price
C19_Witness ==
    \E p \in DOMAIN req, i \in 1..Investments.len :
        /\ req[p].op = "refresh" /\ req[p].pc = "done"
        /\ market[Investments.arr[i].SchemeCode].onDate = Quote(10)
        /\ market[Investments.arr[i].SchemeCode].latest = Quote(20)
        /\ Investments.arr[i].Units = 100
        /\ Investments.arr[i].Current = 2000

\* the sum of a sequence of numbers
RECURSIVE SeqSum(_)
SeqSum(ns) == IF ns = <<>> THEN 0 ELSE Head(ns) + SeqSum(Tail(ns))

TotalInvested == SeqSum([k \in 1..Investments.len |-> Investments.arr[k].Invested])
TotalCurrent == SeqSum([k \in 1..Investments.len |-> Investments.arr[k].Current])

\* C21: the dashboard shows TotalGain = TotalCurrent - TotalInvested and
\* GainPercent = TotalGain / TotalInvested x 100 when TotalInvested > 0
\* and 0 otherwise, for every list of investments, the empty one and those
\* whose invested amounts add up to 0 included
C21_GainPercentGuarded ==
    screen.view = "dashboard" =>
        /\ screen.totalGain = TotalCurrent - TotalInvested
        /\ screen.gainPct =
              IF TotalInvested > 0
              THEN ((TotalCurrent - TotalInvested) * 100) \div TotalInvested
              ELSE 0

\* the dashboard shows 0 percent for investments that gained although
\* their invested amounts add up to 0
C21_Witness ==
    /\ screen.view = "dashboard"
    /\ Investments.len > 0 /\ TotalInvested = 0 /\ screen.totalGain > 0
    /\ screen.gainPct = 0

\* C22: the summary's net total is totalIncome - totalExpenses -
\* totalInvested + max(totalGain, 0): a loss counts as a gain of 0, a gain
\* is added whole
C22_NetTotalIgnoresLosses ==
    screen.view = "summary" =>
        LET totalIncome == SeqSum([k \in 1..mem["incomes"].len |->
                                      mem["incomes"].arr[k].Amount])
            totalGain == TotalCurrent - TotalInvested
        IN screen.netTotal =
              totalIncome - screen.totalExpenses - TotalInvested
                 + (IF totalGain < 0 THEN 0 ELSE totalGain)

\* a summary of a portfolio showing a loss
C22_Witness ==
    /\ screen.view = "summary"
    /\ TotalCurrent < TotalInvested
    /\ screen.netTotal = screen.totalIncome - screen.totalExpenses - TotalInvested

\* the sum of the amounts of the expenses of month <<y, m>>
MonthlyTotal(expenses, month) ==
    SeqSum([k \in 1..Len(expenses) |->
               IF /\ Len(expenses[k].Date) >= 2
                  /\ <<expenses[k].Date[1], expenses[k].Date[2]>> = month
               THEN expenses[k].Amount ELSE 0])

\* the six entries are those of the six calendar months ending with the
\* current one, oldest first, each with the total of the month it is
\* labelled with
TrendOfLastSixMonths ==
    /\ Len(screen.monthlyTrends) = 6
    /\ \A k \in 1..6 :
          LET month == AddMonths(clock.month, k - 6)
          IN /\ screen.monthlyTrends[k].month = month[2]
             /\ screen.monthlyTrends[k].amount
                   = MonthlyTotal(Coll(mem["expenses"]), month)

\* C23: MonthlyTrend returns exactly 6 entries, oldest first, one for each
\* of the 6 most recent calendar months ending with the current month, each
\* with the MonthlyTotal of the month it is labelled with, 0 for a month
\* without expenses
C23_TrendOfLastSixMonths ==
    screen.view = "analytics" => TrendOfLastSixMonths

\* the same for a browser that is not east of UTC
TrendRightWestOfUTC ==
    (screen.view = "analytics" /\ clock.zone <= 0) => TrendOfLastSixMonths

\* the bucket of an expense in GroupByMember
MemberOf(e) == IF e.AddedBy = "" THEN "Unknown" ELSE e.AddedBy

\* the sum of the buckets of a grouping
RECURSIVE BucketSum(_)
BucketSum(g) ==
    IF DOMAIN g = {} THEN 0
    ELSE LET key == CHOOSE k \in DOMAIN g : TRUE
         IN g[key] + BucketSum([k \in DOMAIN g \ {key} |-> g[k]])

\* g groups expenses by member: one bucket per member observed, "Unknown"
\* for the expenses without one, each holding the sum of its expenses'
\* amounts, the buckets adding up to the sum of all amounts
GroupsByMember(g, expenses) ==
    /\ DOMAIN g = {MemberOf(expenses[k]) : k \in 1..Len(expenses)}
    /\ \A m \in DOMAIN g :
          g[m] = SeqSum([k \in 1..Len(expenses) |->
                            IF MemberOf(expenses[k]) = m
                            THEN expenses[k].Amount ELSE 0])
    /\ BucketSum(g) = SeqSum([k \in 1..Len(expenses) |-> expenses[k].Amount])

\* g groups expenses by category, leaving out those without one
GroupsByCategory(g, expenses) ==
    /\ DOMAIN g = {expenses[k].Category : k \in 1..Len(expenses)} \ {""}
    /\ \A c \in DOMAIN g :
          g[c] = SeqSum([k \in 1..Len(expenses) |->
                            IF expenses[k].Category = c
                            THEN expenses[k].Amount ELSE 0])

\* C24: GroupByMember maps each member to the sum of that member's
\* expenses, those without a member under "Unknown", so that the buckets
\* add up to the sum of all amounts; GroupByCategory does the same by
\* category and leaves out the expenses without one
C24_GroupingBuckets ==
    /\ GroupsByMember(groupExpensesByMember(Coll(mem["expenses"])),
                      Coll(mem["expenses"]))
    /\ GroupsByCategory(groupExpensesByCategory(Coll(mem["expenses"])),
                        Coll(mem["expenses"]))
    /\ screen.view = "dashboard" =>
          /\ GroupsByMember(screen.byMember, screen.monthlyExpenses)
          /\ GroupsByCategory(screen.byCategory, screen.monthlyExpenses)

\* the dashboard groups two expenses of the month under "Unknown", one of
\* them without a member and without a category
C24_Witness ==
    /\ screen.view = "dashboard"
    /\ Len(screen.monthlyExpenses) = 2
    /\ screen.monthlyExpenses[1].AddedBy = ""
    /\ screen.monthlyExpenses[2].AddedBy = "Unknown"
    /\ screen.byMember = [m \in {"Unknown"} |-> 120]
    /\ screen.byCategory = [c \in {"Rent"} |-> 50]

\* C25: MonthlyTotal(records, month) is the sum of the amounts of the
\* records whose date starts with the month, nothing from other months or
\* from records without a date, 0 for the empty list; with the month left
\* out it is that of the current calendar month
C25_MonthlyTotalOfMonth ==
    /\ \A month \in SelectedMonths \ {<<>>} :
          calculateMonthlyExpenses(Coll(mem["expenses"]), month)
             = MonthlyTotal(Coll(mem["expenses"]), month)
    /\ calculateMonthlyExpenses(Coll(mem["expenses"]), <<>>)
          = MonthlyTotal(Coll(mem["expenses"]), clock.month)
    /\ screen.view = "dashboard" =>
          screen.totalMonthly = MonthlyTotal(Coll(mem["expenses"]), clock.month)

\* the same with the month given, or left out away from the ends of a month
MonthlyTotalOfGivenMonth ==
    /\ \A month \in SelectedMonths \ {<<>>} :
          calculateMonthlyExpenses(Coll(mem["expenses"]), month)
             = MonthlyTotal(Coll(mem["expenses"]), month)
    /\ clock.edge = "middle" =>
          calculateMonthlyExpenses(Coll(mem["expenses"]), <<>>)
             = MonthlyTotal(Coll(mem["expenses"]), clock.month)

\* the place of a collection in the order of ImportData's assignments
PartIndex(c) ==
    CASE c = "investments" -> 1 [] c = "incomes" -> 2 [] c = "expenses" -> 3
      [] OTHER -> 4

\* p's import has replaced some of the collections its bundle replaces and
\* not yet all of them
ImportPartial(p) ==
    /\ req[p].op = "import" /\ req[p].pc = "imp_part"
    /\ \E c1, c2 \in Collections :
          /\ Replaced(req[p].bundle, c1) /\ Replaced(req[p].bundle, c2)
          /\ PartIndex(c1) < PartIndex(req[p].typ)
          /\ PartIndex(req[p].typ) <= PartIndex(c2)

\* q's step reads the store for a List or an Export
Observes(q) ==
    \/ req[q].pc = "list_rlock" /\ req'[q].pc = "list_encode"
    \/ req'[q].op = "export" /\ started' = started + 1

\* C26: Import replaces the collections of its bundle as one critical
\* section: it holds the write lock from before the first replacement
\* until after the last, and no List or Export reads the store while some
\* but not all of them are replaced
C26_ImportIsOneCriticalSection ==
    /\ [](\A p \in DOMAIN req :
             ImportPartial(p) => (mu.writer = p /\ mu.readers = {}))
    /\ [][\A p, q \in DOMAIN req :
             (p # q /\ ImportPartial(p)) => ~Observes(q)]_vars

\* a List waits for the lock while an import has replaced the investments
\* and not yet the expenses
C26_Witness ==
    \E p, q \in DOMAIN req :
        /\ p # q /\ ImportPartial(p) /\ req[p].typ = "expenses"
        /\ req[q].pc = "list_rlock"
        /\ \E i \in 1..Investments.len : Investments.arr[i] = BadInvestment

\* seq without its i-th element
Without(seq, i) ==
    [k \in 1..(Len(seq) - 1) |-> IF k < i THEN seq[k] ELSE seq[k + 1]]

\* C27: a Delete removes the record with its id and no other, an Update
\* replaces the record with its id where it stands; the other records of
\* the collection stay as they are and in their order, and the other
\* collections and the settings are not touched
C27_DeleteAndUpdateFrame ==
    [][\A p \in DOMAIN req :
          LET t == req[p].typ
              old == Coll(mem[t])
              i == IndexOfID(old, req[p].id)
          IN /\ (req[p].pc = "del_store" /\ req'[p].pc # "del_store") =>
                   /\ \A c \in Types \ {t} : mem'[c] = mem[c]
                   /\ settings' = settings
                   /\ IF i = 0 THEN mem'[t] = mem[t]
                      ELSE Coll(mem'[t]) = Without(old, i)
             /\ (req[p].pc = "upd_store" /\ req'[p].pc # "upd_store") =>
                   /\ \A c \in Types \ {t} : mem'[c] = mem[c]
                   /\ settings' = settings
                   /\ IF i = 0 THEN mem'[t] = mem[t]
                      ELSE /\ Coll(mem'[t]) = [old EXCEPT ![i] = req[p].rec]
                           /\ req[p].rec.ID = req[p].id]_vars

\* the first of two investments was deleted and the second is what is left
C27_Witness ==
    \E p \in DOMAIN req :
        /\ req[p].op = "delete" /\ req[p].memDone /\ req[p].id = 1
        /\ Investments.len = 1 /\ Investments.arr[1].ID = 2

\* C28: every record the store holds satisfies the rules of its type,
\* whatever Create, Update, Delete, NAV-refresh and Import requests have
\* been served
C28_StoredRecordsValid ==
    \A t \in Types : \A i \in 1..mem[t].len : Rules(t, mem[t].arr[i])

\* C29: no two records of a collection have the same id
C29_IdsUnique ==
    \A t \in Types : \A i, j \in 1..mem[t].len :
        mem[t].arr[i].ID = mem[t].arr[j].ID => i = j

\* the places where a handler is about to call Lock or RLock
LockCalls == {"add_lock", "upd_lock", "set_lock", "nav_lock", "list_rlock",
              "save_rlock"}

\* p waits for the mutex
AwaitsLock(p) == req[p].pc \in LockCalls

====
